---- MODULE Spec2Model ----
(***************************************************************************)
(* A model of the trio run loop (src/trio/_core/_run.py): the Runner, its  *)
(* tasks, cancel scopes with deadlines and shields, nurseries, and the     *)
(* thread-safe call_soon queue with its drain task.                        *)
(*                                                                         *)
(* A coroutine is modelled by its continuation: a stack of frames (the     *)
(* with-blocks and blocking calls it is inside), the exception in flight   *)
(* and a program counter.  run_impl steps one task at a time, so between   *)
(* StepBegin and the action that yields or finishes only the task `cur`    *)
(* moves; foreign threads may enqueue call_soon jobs at any point.         *)
(*                                                                         *)
(* Exceptions are bags of causes: a bag of one cause is that exception     *)
(* bare, a bag of two or more is a MultiError of them.  Iteration over a   *)
(* Python set is done in a fixed order where the order cannot be seen      *)
(* (the run queue is shuffled before it is used).                          *)
(***************************************************************************)
EXTENDS Integers, Sequences, FiniteSets, Bags, TLC

\* ------------------------------------------------------------- bounds
\* user tasks that may be spawned besides init, call_soon_task and main
MaxChildren == 2
\* the clock runs over 0..MaxTime
MaxTime == 1
\* user-level `with open_cancel_scope()` blocks open at once in one task
MaxDepth == 1
\* call_soon_thread_and_signal_safe calls made by foreign threads
MaxJobs == 2
\* distinct (fn, args) keys of the calls made with idempotent=True
MaxKeys == 1
\* UnboundedQueue objects user code creates to monitor tasks
MaxQueues == 2
\* tasks such a queue holds at most before it is emptied
MaxQueued == 2
\* the depth to which announcements of hooks nest
MaxCalls == 2
\* the signal numbers a SignalReceiver listens for, and the calls of _add
MaxSignums == 2
MaxAdds == 4
\* the tasks that call ensure of one _Once
MaxCallers == 3
\* SIGINTs that arrive while run() has its handler installed
MaxSignals == 1
\* the length of the `instruments` list passed to run()
MaxInstruments == 2
\* `with open_cancel_scope()` blocks nested in the main task where nesting is
\* what is looked at, and how far beyond MaxTime deadlines may then lie
MaxNest == 3
MaxAhead == 2

\* ------------------------------------------------------------- identities
\* the tasks of a run, in the order Runner.init creates them
InitTask == 1
CallSoonTask == 2
MainTask == 3
NTasks == MainTask + MaxChildren
Tasks == 1..NTasks
UserTasks == MainTask..NTasks
Children == (MainTask + 1)..NTasks

\* +inf and -inf of the deadlines; finite deadlines are 0..MaxTime, or
\* 0..MaxTime + MaxAhead for nested scopes
Inf == MaxTime + MaxAhead + 1
NegInf == 0 - 1
Deadlines == {NegInf} \cup (0..MaxTime) \cup {Inf}

\* id(scope): enough ids for the scopes that can be alive at once:
\* every task may be inside yield_briefly (1), the init task holds the system
\* nursery's scope and its cleanup scope (2), main may hold a nursery (2)
\* and user scopes
NScopes == NTasks + 4 + MaxDepth
Scopes == 1..NScopes

Queues == 1..MaxQueues
Jobs == 1..MaxJobs
Keys == 1..MaxKeys

VARIABLES
  loop,       \* where run() is: "start", "run", "closed"
  runq,       \* runner.runq
  batch,      \* run_impl's local batch: the tasks of the snapshot not yet stepped
  cur,        \* GLOBAL_RUN_CONTEXT.task, 0 when no task is being stepped
  tasks,      \* runner.tasks
  deadlines,  \* the keys of runner.deadlines: pairs <<deadline, id(scope)>>
  now,        \* the clock
  task,       \* the Task objects and their coroutines
  scope,      \* the CancelScope objects
  nursery,    \* the Nursery objects (with their monitor queue), by parent task
  fault,      \* the first failed assertion of the code, "none" if none
  csq,        \* runner.call_soon_queue
  csidem,     \* runner.call_soon_idempotent_queue, and its history
  csdone,     \* runner.call_soon_done
  woken,      \* a byte is pending in the call_soon_wakeup channel
  job,        \* per call_soon job: what its enqueue call did and how often it ran
  ki,         \* pending: runner.ki_pending; signals: the SIGINTs so far
  instruments, \* runner.instruments, with what its members do and have done
  waiting_for_idle, \* runner.waiting_for_idle
  queues,     \* the items held by the UnboundedQueue objects of user code
  parked,     \* ParkingLot._parked of a lot of user code: its tasks by idx
  hk,         \* an Instruments object of _instrumentation.py, its Hook objects
              \* and the calls of hooks under way
  sig,        \* a SignalReceiver of _signals.py and the task that iterates it
  once,       \* a _Once of ssl.py and the tasks that call its ensure
  hist        \* history of the current batch: its snapshot of the run queue, the
              \* steps taken and, until the first of them, the scopes that
              \* the deadline loop has just cancelled

vars == <<loop, runq, batch, cur, tasks, deadlines, now, task, scope, nursery,
          fault, csq, csidem, csdone, woken, job, ki, instruments,
          waiting_for_idle, queues, parked, hk, sig, once, hist>>

\* the variables of the run loop and of the objects of user code
RunnerVars ==
  <<loop, runq, batch, cur, tasks, deadlines, now, task, scope, nursery,
    fault, csq, csidem, csdone, woken, job, ki, instruments,
    waiting_for_idle, queues, parked, hist>>

\* ------------------------------------------------------------- values
Min(S) == CHOOSE x \in S : \A y \in S : x <= y
SeqToSet(q) == {q[i] : i \in DOMAIN q}

\* Result objects; k = "None" is Python's None
NoneOut == [k |-> "None", v |-> 0, e |-> EmptyBag]
Value(v) == [k |-> "Value", v |-> v, e |-> EmptyBag]
Error(e) == [k |-> "Error", v |-> 0, e |-> e]

\* exception causes
CancelledExc(s) == [k |-> "Cancelled", s |-> s]
KeyboardInterrupt == [k |-> "KeyboardInterrupt", s |-> 0]
UserExc(t) == [k |-> "Error", s |-> t]
RuntimeError == [k |-> "RuntimeError", s |-> 0]
ValueError == [k |-> "ValueError", s |-> 0]
WouldBlock == [k |-> "WouldBlock", s |-> 0]
TrioInternalError == [k |-> "TrioInternalError", s |-> 0]
\* what the callback of job j raises when it is not a KeyboardInterrupt
CallbackExc(j) == [k |-> "CallbackError", s |-> j]
Bare(c) == SetToBag({c})
IsCancelled(c) == c.k = "Cancelled"

\* MultiError(exceptions): the members of every listed exception in one
\* aggregate; an aggregate of one member is that member
RECURSIVE MultiError(_)
MultiError(excs) ==
  IF excs = <<>> THEN EmptyBag ELSE Head(excs) (+) MultiError(Tail(excs))

\* the frames of a coroutine
\* k: the kind; s: its cancel scope; u: its nursery; af: the abort callback of
\* a yield_indefinitely; x, c: the `exceptions` and `cancelled_children` of
\* _clean_up.
\* History kept with a frame: n, how often _clean_up has cancelled (cleanup),
\* how often the task was resumed with this scope's Cancelled (scope), or how
\* often the abort callback of the blocking call was called (the others);
\* b, the exception that left the nursery body; r, the exceptions the parent
\* was resumed with inside _clean_up
Frame(k, s) ==
  [k |-> k, s |-> s, u |-> 0, af |-> "None", x |-> EmptyBag, c |-> FALSE,
   n |-> 0, b |-> EmptyBag, r |-> EmptyBag]

FreshTask == [born |-> FALSE, nursery |-> 0, result |-> NoneOut,
              next_send |-> NoneOut, abort_func |-> "None",
              cancel_stack |-> <<>>, frames |-> <<>>, exc |-> EmptyBag,
              pc |-> "new", rv |-> 0, got |-> <<>>, fa |-> FALSE,
              arg |-> EmptyBag, monitors |-> {}]

\* History kept with a scope: woke, the tasks that were rescheduled by the
\* clearing of its shield
FreshScope == [live |-> FALSE, tasks |-> {}, eff |-> Inf, deadline |-> Inf,
               shield |-> FALSE, called |-> FALSE, caught |-> FALSE,
               woke |-> {}]

\* reaped: the tasks the body of the block has reaped itself
FreshNursery == [open |-> FALSE, cancel_stack |-> <<>>, scope |-> 0,
                 children |-> {}, zombies |-> {}, data |-> <<>>,
                 can_get |-> FALSE, lot |-> <<>>, closed |-> FALSE,
                 reaped |-> {}]

\* q: the keys of call_soon_idempotent_queue; todo: what is left of the
\* `list(self.call_soon_idempotent_queue)` that run_all_bounded walks.
\* History, per key: puts, the calls that stored it; groups, the calls that
\* stored it when it was not in the queue; runs, the times its fn has run
NoKeys == [q |-> {}, todo |-> {},
           puts |-> [k \in Keys |-> 0], groups |-> [k \in Keys |-> 0],
           runs |-> [k \in Keys |-> 0]]

\* History of the current step of call_soon_task, which holds one pass of
\* run_all_bounded: plain, how many items at the end of call_soon_queue were
\* put there during this step, by callbacks of the pass or by the SIGINT
\* handler; early and late, the keys that
\* callbacks of this pass stored in the idempotent queue, when they were not
\* in it, before and after the walk over that queue began
NoFresh == [plain |-> 0, early |-> {}, late |-> {}]

\* the loop thread's objects as one value, so that the code's statements
\* compose as functions on it
St == [task |-> task, scope |-> scope, nursery |-> nursery, runq |-> runq,
       tasks |-> tasks, deadlines |-> deadlines, fault |-> fault,
       woken |-> woken, ki_pending |-> ki.pending, instr |-> instruments,
       waiting_for_idle |-> waiting_for_idle, queues |-> queues,
       parked |-> parked, hk |-> hk, sig |-> sig, once |-> once]

Commit(st) ==
  /\ task' = st.task
  /\ scope' = st.scope
  /\ nursery' = st.nursery
  /\ runq' = st.runq
  /\ tasks' = st.tasks
  /\ deadlines' = st.deadlines
  /\ fault' = st.fault
  /\ woken' = st.woken
  /\ ki' = [ki EXCEPT !.pending = st.ki_pending]
  /\ instruments' = st.instr
  /\ waiting_for_idle' = st.waiting_for_idle
  /\ queues' = st.queues
  /\ parked' = st.parked
  /\ hk' = st.hk
  /\ sig' = st.sig
  /\ once' = st.once

Fail(st, what) == [st EXCEPT !.fault = IF @ = "none" THEN what ELSE @]

Top(st, t) == st.task[t].frames[Len(st.task[t].frames)]
Push(st, t, f) == [st EXCEPT !.task[t].frames = Append(@, f)]
Pop(st, t) == [st EXCEPT !.task[t].frames = SubSeq(@, 1, Len(@) - 1)]
SetTop(st, t, f) == [st EXCEPT !.task[t].frames[Len(st.task[t].frames)] = f]

\* ------------------------------------------------------------- instruments
\* the hooks run_impl, reschedule and close call
Hooks == {"before_run", "before_io_wait", "after_io_wait", "before_task_step",
          "after_task_step", "task_scheduled", "after_run"}

\* the instrument objects a caller may list.  Every object defines every hook;
\* raises[i] is the hook whose method raises, "none" if no method does.
Instruments == 1..MaxInstruments

\* list: runner.instruments.  History: raised, the objects one of whose
\* methods has raised; again, the objects called after they raised; last,
\* the objects called for the hook announced last; given, the list run() was
\* called with; sched[t], how many task_scheduled(t) were announced since
\* the last before_task_step(t), counted up to 2; seen[t], what sched[t] was
\* when the last before_task_step(t) was announced, -1 before the first;
\* open, the tasks with a before_task_step announced and no after_task_step
\* since
NoInstruments ==
  [list |-> <<>>, raises |-> [i \in Instruments |-> "none"],
   raised |-> {}, again |-> {}, last |-> {}, given |-> <<>>,
   sched |-> [t \in Tasks |-> 0], seen |-> [t \in Tasks |-> -1],
   open |-> {}]

\* list.remove(x): the first item equal to x goes
RECURSIVE ListRemove(_, _)
ListRemove(q, x) ==
  IF q = <<>> THEN <<>>
  ELSE IF Head(q) = x THEN Tail(q)
  ELSE <<Head(q)>> \o ListRemove(Tail(q), x)

\* Runner.instrument: `for instrument in list(self.instruments)`, over the
\* rest `copy` of the copied list
RECURSIVE InstrumentWalk(_, _, _)
InstrumentWalk(st, method_name, copy) ==
  IF copy = <<>> THEN st
  ELSE LET i == Head(copy)
           st1 == [st EXCEPT !.instr.again =
                     IF i \in st.instr.raised THEN @ \cup {i} ELSE @,
                             !.instr.last = @ \cup {i}]
           st2 == IF st.instr.raises[i] # method_name THEN st1
                  ELSE IF i \notin SeqToSet(st1.instr.list)
                  THEN Fail(st1, "instrument: list.remove(x): x not in list")
                  ELSE [st1 EXCEPT !.instr.list = ListRemove(@, i),
                                   !.instr.raised = @ \cup {i}]
       IN InstrumentWalk(st2, method_name, Tail(copy))

\* Runner.instrument(method_name, *args)
Instrument(st, method_name) ==
  InstrumentWalk([st EXCEPT !.instr.last = {}], method_name, st.instr.list)

\* ------------------------------------------------- _instrumentation.py
\* Hook and Instruments.  hk.reg is Instruments._instruments; hk.obj holds
\* the Hook objects, each a dict in insertion order (items) with its
\* _in_call; hk.current[n] is the Hook that the attribute n of the Instruments
\* object names; hk.stack holds the calls of Hook.__call__ under way,
\* innermost last: the Hook iterated, the position and the size the dict
\* iterator started with, the instrument whose method runs (at), and as
\* history the items at the start (began) and the instruments called so far
\* (called); hk.err is an exception in flight, hk.escaped one that has left
\* the outermost call.

\* the hook names, in the order of dir(instrument)
HookNames == <<"before_run", "task_scheduled">>

\* the hooks instrument i overrides
Implements(i) ==
  IF i % Len(HookNames) = 0 THEN {HookNames[Len(HookNames)]}
  ELSE SeqToSet(HookNames)

HookIds == 1..(Len(HookNames) + MaxCalls)

\* the place of a Hook object that nothing refers to
FreeHook == [name |-> "none", items |-> <<>>, in_call |-> 0]

\* Hook(name, parent)
NewHook(n) == [name |-> n, items |-> <<>>, in_call |-> 0]

\* Instruments([])
NoHooks ==
  [reg |-> [i \in Instruments |-> [present |-> FALSE, hooknames |-> <<>>]],
   obj |-> [o \in HookIds |-> IF o <= Len(HookNames) THEN NewHook(HookNames[o])
                                ELSE FreeHook],
   current |-> [n \in SeqToSet(HookNames) |->
                  CHOOSE o \in DOMAIN HookNames : HookNames[o] = n],
   stack |-> <<>>, err |-> "none", escaped |-> "none"]

\* an as_mutable that always returns self
AsMutableSelf(h, n) == h

\* Hook.as_mutable of the Hook that attribute n names
AsMutable(h, n) ==
  IF h.obj[h.current[n]].in_call > 0
  THEN LET replacement == Min({o \in HookIds : h.obj[o].name = "none"})
       IN [h EXCEPT !.obj[replacement] =
                      [NewHook(n) EXCEPT !.items = h.obj[h.current[n]].items],
                    !.current[n] = replacement]
  ELSE h

\* add_instrument: `for name in dir(instrument)`, over the rest `names`
RECURSIVE AddHooks(_, _, _)
AddHooks(h, i, names) ==
  IF names = <<>> THEN h
  ELSE IF Head(names) \notin Implements(i) THEN AddHooks(h, i, Tail(names))
  ELSE LET h1 == AsMutable(h, Head(names))
       IN AddHooks([h1 EXCEPT !.obj[h1.current[Head(names)]].items =
                                IF i \in SeqToSet(@) THEN @ ELSE Append(@, i),
                              !.reg[i].hooknames = Append(@, Head(names))],
                   i, Tail(names))

\* Instruments.add_instrument
AddInstrument(h, i) ==
  IF h.reg[i].present THEN h
  ELSE AddHooks([h EXCEPT !.reg[i] = [present |-> TRUE, hooknames |-> <<>>]],
                i, HookNames)

\* remove_instrument: `for name in hooknames`, over the rest `names`
RECURSIVE DelHooks(_, _, _)
DelHooks(h, i, names) ==
  IF names = <<>> THEN h
  ELSE LET h1 == AsMutable(h, Head(names))
       IN IF i \notin SeqToSet(h1.obj[h1.current[Head(names)]].items)
          THEN [h1 EXCEPT !.err = "KeyError"]
          ELSE DelHooks([h1 EXCEPT !.obj[h1.current[Head(names)]].items =
                                     ListRemove(@, i)], i, Tail(names))

\* a remove_instrument that does nothing for an instrument that is not active
RemoveInstrumentQuietly(h, i) ==
  IF ~h.reg[i].present THEN h
  ELSE DelHooks([h EXCEPT !.reg[i] = [present |-> FALSE, hooknames |-> <<>>]],
                i, h.reg[i].hooknames)

\* Instruments.remove_instrument: the KeyError of the pop propagates
RemoveInstrument(h, i) ==
  IF ~h.reg[i].present THEN [h EXCEPT !.err = "KeyError"]
  ELSE DelHooks([h EXCEPT !.reg[i] = [present |-> FALSE, hooknames |-> <<>>]],
                i, h.reg[i].hooknames)

HookTop(h) == h.stack[Len(h.stack)]

\* Hook.__call__ up to the loop: `self._in_call += 1`, `self.items()`
HookEnter(h, n) ==
  LET o == h.current[n]
  IN [h EXCEPT !.obj[o].in_call = @ + 1,
               !.stack = Append(@, [hook |-> o, pos |-> 1,
                                    size |-> Len(h.obj[o].items), at |-> 0,
                                    began |-> h.obj[o].items,
                                    called |-> <<>>])]

\* Hook.__call__ is left: `finally: self._in_call -= 1`; a Hook that nothing
\* refers to any more is dropped
HookLeave(h) ==
  LET o == HookTop(h).hook
      h1 == [h EXCEPT !.stack = SubSeq(@, 1, Len(@) - 1),
                      !.obj[o].in_call = @ - 1]
  IN IF h1.obj[o].in_call = 0 /\ h1.current[h.obj[o].name] # o
     THEN [h1 EXCEPT !.obj[o] = FreeHook] ELSE h1

\* The method that the innermost call is at has raised h.err: the `except:`
\* of Hook.__call__ removes its instrument and logs; an exception of
\* remove_instrument leaves the call and reaches the caller, which is the
\* method that made the call, or else whoever announced the hook
RECURSIVE MethodRaised(_)
MethodRaised(h) ==
  LET h1 == RemoveInstrument([h EXCEPT !.err = "none"], HookTop(h).at)
      h2 == HookLeave(h1)
  IN IF h1.err = "none" THEN h1
     ELSE IF h2.stack = <<>>
     THEN [h2 EXCEPT !.escaped = h1.err, !.err = "none"]
     ELSE MethodRaised(h2)

\* what a step of this component leaves behind
HookDoes(h) == hk' = h /\ UNCHANGED <<RunnerVars, sig, once>>

\* the innermost call has a next item and no exception has escaped
HookHasNext ==
  /\ hk.escaped = "none" /\ hk.stack # <<>>
  /\ Len(hk.obj[HookTop(hk).hook].items) = HookTop(hk).size
  /\ HookTop(hk).pos <= HookTop(hk).size

\* `for instrument, method in self.items()` yields the next item, and
\* method(*args) is called
HookNextItem(h) ==
  LET i == h.obj[HookTop(h).hook].items[HookTop(h).pos]
  IN [h EXCEPT !.stack[Len(h.stack)] =
                 [@ EXCEPT !.pos = @ + 1, !.at = i,
                           !.called = Append(@, i)]]

\* the hook n is announced while no call is under way
HookCall(n) ==
  /\ hk.escaped = "none" /\ hk.stack = <<>>
  /\ HookDoes(HookEnter(hk, n))

\* the dict iterator of the innermost call is asked for the next item: it
\* raises RuntimeError when the dict has changed size, and ends the loop
\* after the last item; the method that made the call goes on and returns
HookIterEnds ==
  /\ hk.escaped = "none" /\ hk.stack # <<>>
  /\ ~HookHasNext
  /\ IF Len(hk.obj[HookTop(hk).hook].items) # HookTop(hk).size
     THEN LET h == HookLeave(hk)
          IN HookDoes(IF h.stack = <<>>
                      THEN [h EXCEPT !.escaped = "RuntimeError"]
                      ELSE MethodRaised([h EXCEPT !.err = "RuntimeError"]))
     ELSE HookDoes(HookLeave(hk))

\* the method called returns, having changed nothing
HookMethodReturns ==
  /\ HookHasNext
  /\ HookDoes(HookNextItem(hk))

\* the method called calls add_instrument(j)
HookMethodAdds(j) ==
  /\ HookHasNext
  /\ HookDoes(AddInstrument(HookNextItem(hk), j))

\* the method called calls remove_instrument(j), and does not catch its
\* KeyError
HookMethodRemoves(j) ==
  /\ HookHasNext
  /\ LET h == RemoveInstrument(HookNextItem(hk), j)
     IN HookDoes(IF h.err = "none" THEN h ELSE MethodRaised(h))

\* the method called raises
HookMethodRaises ==
  /\ HookHasNext
  /\ HookDoes(MethodRaised([HookNextItem(hk) EXCEPT !.err = "Exception"]))

\* the method called announces the hook n itself
HookMethodCalls(n) ==
  /\ HookHasNext /\ Len(hk.stack) < MaxCalls
  /\ HookDoes(HookEnter(HookNextItem(hk), n))

\* add_instrument(i) and remove_instrument(i) of an active instrument, called
\* while no hook is being announced
HookAdd(i) ==
  /\ hk.escaped = "none" /\ hk.stack = <<>>
  /\ HookDoes(AddInstrument(hk, i))

HookRemove(i) ==
  /\ hk.escaped = "none" /\ hk.stack = <<>> /\ hk.reg[i].present
  /\ HookDoes(RemoveInstrument(hk, i))

\* ------------------------------------------------------------ _signals.py
\* SignalReceiver.  pending: the keys of the OrderedDict _pending, oldest
\* first; have_pending: the flag of the Event; closed: _closed; pc, got, exc:
\* where the task that iterates is in __anext__, and what its last call
\* returned or raised; err: the signal whose handler's exception leaves
\* _redeliver_remaining, 0 if none.  History, per signal number: adds, the
\* calls of _add; stored, the times it entered _pending; returned, the times
\* __anext__ returned it; raised, the times signal_raise was called for it.
SigNums == 1..MaxSignums

\* SignalReceiver()
NoReceiver ==
  [pending |-> <<>>, have_pending |-> FALSE, closed |-> FALSE,
   pc |-> "idle", got |-> 0, exc |-> "none", err |-> 0,
   adds |-> [s \in SigNums |-> 0], stored |-> [s \in SigNums |-> 0],
   returned |-> [s \in SigNums |-> 0], raised |-> [s \in SigNums |-> 0]]

\* signal_raise(signum): the handler now installed for signum runs; the
\* handlers of the signals in raising raise
SignalRaise(r, signum, raising) ==
  [r EXCEPT !.raised[signum] = @ + 1,
            !.err = IF signum \in raising THEN signum ELSE @]

\* SignalReceiver._add
SigAddTo(r, signum, raising) ==
  IF r.closed
  THEN SignalRaise([r EXCEPT !.adds[signum] = @ + 1], signum, raising)
  ELSE [r EXCEPT !.adds[signum] = @ + 1,
                 !.pending = IF signum \in SeqToSet(@) THEN @
                             ELSE Append(@, signum),
                 !.stored[signum] = IF signum \in SeqToSet(r.pending) THEN @
                                    ELSE @ + 1,
                 !.have_pending = TRUE]

\* a deliver_next without the finally clause
RECURSIVE DeliverNextNoFinally(_, _)
DeliverNextNoFinally(r, raising) ==
  IF r.pending = <<>> THEN r
  ELSE LET r1 == SignalRaise([r EXCEPT !.pending = Tail(@)], Head(r.pending),
                             raising)
       IN IF Head(r.pending) \in raising THEN r1
          ELSE DeliverNextNoFinally(r1, raising)

\* _redeliver_remaining.deliver_next: popitem(last=False), signal_raise, and
\* in the finally clause deliver_next again; the exception of a later handler
\* takes the place of an earlier one
RECURSIVE DeliverNext(_, _)
DeliverNext(r, raising) ==
  IF r.pending = <<>> THEN r
  ELSE DeliverNext(SignalRaise([r EXCEPT !.pending = Tail(@)],
                               Head(r.pending), raising), raising)

\* SignalReceiver._redeliver_remaining
RedeliverRemaining(r, raising) ==
  DeliverNext([r EXCEPT !.closed = TRUE, !.err = 0], raising)

\* __anext__ after `await self._have_pending.wait()`: popitem(last=False)
\* raises KeyError on an empty dict
AnextPop(r) ==
  IF r.pending = <<>> THEN [r EXCEPT !.pc = "idle", !.got = 0,
                                     !.exc = "KeyError"]
  ELSE [r EXCEPT !.pc = "idle", !.got = Head(r.pending), !.exc = "none",
                 !.returned[Head(r.pending)] = @ + 1,
                 !.pending = Tail(@),
                 !.have_pending = Tail(r.pending) # <<>>]

\* the calls of _add so far, for the numbers up to n
RECURSIVE AddsUpTo(_, _)
AddsUpTo(r, n) == IF n = 0 THEN 0 ELSE r.adds[n] + AddsUpTo(r, n - 1)

\* what a step of this component leaves behind
SigDoes(r) == sig' = r /\ UNCHANGED <<RunnerVars, hk, once>>

\* the run loop runs queue._add(signum), which the handler had queued; the
\* handlers of the signals in raising would raise
SigAdd(signum, raising) ==
  /\ AddsUpTo(sig, MaxSignums) < MaxAdds
  /\ raising \subseteq {signum}
  /\ (~sig.closed => raising = {})
  /\ SigDoes(SigAddTo(sig, signum, raising))

\* the task calls __anext__: RuntimeError when _closed, else it waits for the
\* Event
SigAnext ==
  /\ sig.pc = "idle"
  /\ SigDoes(IF sig.closed
             THEN [sig EXCEPT !.got = 0, !.exc = "RuntimeError"]
             ELSE [sig EXCEPT !.pc = "waiting", !.got = 0, !.exc = "none"])

\* Event.wait returns, the flag being set
SigAnextResumes ==
  /\ sig.pc = "waiting" /\ sig.have_pending
  /\ SigDoes(AnextPop(sig))

\* the task is cancelled in Event.wait
SigAnextCancelled ==
  /\ sig.pc = "waiting"
  /\ SigDoes([sig EXCEPT !.pc = "idle", !.exc = "Cancelled"])

\* the with-block of open_signal_receiver is left: the handlers are restored
\* and `finally: queue._redeliver_remaining()` runs
SigExit(raising) ==
  /\ ~sig.closed /\ raising \subseteq SigNums
  /\ SigDoes(RedeliverRemaining(sig, raising))

\* ------------------------------------------------------------------ ssl.py
\* _Once.  started: _started; done: the flag of the Event _done; pc[c]: where
\* caller c is in ensure ("idle" outside it); out[c]: how its last call
\* ended.  History: first, the caller that started the function, 0 if none;
\* starts, the times the function was started; ended, how the function's
\* invocation ended, "no" while it has not
Callers == 1..MaxCallers

\* _Once(afn, *args)
NoOnce ==
  [started |-> FALSE, done |-> FALSE, pc |-> [c \in Callers |-> "idle"],
   out |-> [c \in Callers |-> "none"], first |-> 0, starts |-> 0,
   ended |-> "no"]

\* _Once.ensure up to its first await
Ensure(r, c, checkpoint) ==
  IF ~r.started
  THEN [r EXCEPT !.started = TRUE, !.pc[c] = "afn", !.out[c] = "none",
                 !.first = c, !.starts = @ + 1]
  ELSE IF ~checkpoint /\ r.done
  THEN [r EXCEPT !.out[c] = "returned"]
  ELSE [r EXCEPT !.pc[c] = "wait", !.out[c] = "none"]

\* caller c leaves ensure
EnsureEnds(r, c, how) == [r EXCEPT !.pc[c] = "idle", !.out[c] = how]

\* what a step of this component leaves behind
OnceDoes(r) == once' = r /\ UNCHANGED <<RunnerVars, hk, sig>>

\* a task calls ensure(checkpoint=...)
OnceEnsure(c, checkpoint) ==
  /\ once.pc[c] = "idle"
  /\ OnceDoes(Ensure(once, c, checkpoint))

\* `await self._afn(*self._args)` returns and `self._done.set()` runs
OnceAfnReturns(c) ==
  /\ once.pc[c] = "afn"
  /\ OnceDoes([EnsureEnds(once, c, "returned") EXCEPT !.done = TRUE,
                                                      !.ended = "returned"])

\* `await self._afn(*self._args)` raises: the exception leaves ensure
OnceAfnRaises(c) ==
  /\ once.pc[c] = "afn"
  /\ OnceDoes([EnsureEnds(once, c, "raised") EXCEPT !.ended = "raised"])

\* the first caller is cancelled inside the function: Cancelled leaves ensure
OnceAfnCancelled(c) ==
  /\ once.pc[c] = "afn"
  /\ OnceDoes([EnsureEnds(once, c, "cancelled") EXCEPT !.ended = "cancelled"])

\* `await self._done.wait()` returns, the flag being set
OnceWaitReturns(c) ==
  /\ once.pc[c] = "wait" /\ once.done
  /\ OnceDoes(EnsureEnds(once, c, "returned"))

\* a caller is cancelled in `await self._done.wait()`
OnceWaitCancelled(c) ==
  /\ once.pc[c] = "wait"
  /\ OnceDoes(EnsureEnds(once, c, "cancelled"))

\* the history of the hooks that name a task
Announce(ins, method_name, t) ==
  CASE method_name = "task_scheduled" ->
         [ins EXCEPT !.sched[t] = IF @ < 2 THEN @ + 1 ELSE @]
    [] method_name = "before_task_step" ->
         [ins EXCEPT !.seen[t] = ins.sched[t], !.sched[t] = 0,
                     !.open = @ \cup {t}]
    [] method_name = "after_task_step" -> [ins EXCEPT !.open = @ \ {t}]
    [] OTHER -> ins

\* Runner.instrument(method_name, task)
InstrumentTask(st, method_name, t) ==
  Instrument([st EXCEPT !.instr = Announce(@, method_name, t)], method_name)

\* ------------------------------------------------------------- cancel scopes
\* CancelScope._might_change_effective_deadline: what its finally clause does
\* after the mutation it wraps
MightChangeEffectiveDeadline(st, s) ==
  LET sc == st.scope[s]
      old == sc.eff
      new == IF sc.called \/ sc.tasks = {} THEN Inf ELSE sc.deadline
  IN IF old = new THEN st
     ELSE [st EXCEPT !.scope[s].eff = new,
                     !.deadlines = (IF old # Inf THEN @ \ {<<old, s>>} ELSE @)
                                   \cup (IF new # Inf THEN {<<new, s>>} ELSE {})]

\* Task._pending_cancel_scope: the walk over the cancel stack, outermost first
\* a walk that ends with the innermost cancelled scope
RECURSIVE PendingWalkInnermost(_, _, _)
PendingWalkInnermost(st, stack, pending) ==
  IF stack = <<>> THEN pending
  ELSE LET sc == st.scope[Head(stack)]
           p1 == IF sc.shield THEN 0 ELSE pending
           p2 == IF sc.called THEN Head(stack) ELSE p1
       IN PendingWalkInnermost(st, Tail(stack), p2)

\* a walk that does not reset at a shielded scope
RECURSIVE PendingWalkIgnoringShield(_, _, _)
PendingWalkIgnoringShield(st, stack, pending) ==
  IF stack = <<>> THEN pending
  ELSE LET sc == st.scope[Head(stack)]
           p2 == IF pending = 0 /\ sc.called THEN Head(stack) ELSE pending
       IN PendingWalkIgnoringShield(st, Tail(stack), p2)

\* a walk that tests cancel_called before shield
RECURSIVE PendingWalkShieldLast(_, _, _)
PendingWalkShieldLast(st, stack, pending) ==
  IF stack = <<>> THEN pending
  ELSE LET sc == st.scope[Head(stack)]
           p1 == IF pending = 0 /\ sc.called THEN Head(stack) ELSE pending
           p2 == IF sc.shield THEN 0 ELSE p1
       IN PendingWalkShieldLast(st, Tail(stack), p2)

RECURSIVE PendingWalk(_, _, _)
PendingWalk(st, stack, pending) ==
  IF stack = <<>> THEN pending
  ELSE LET sc == st.scope[Head(stack)]
           p1 == IF sc.shield THEN 0 ELSE pending
           p2 == IF p1 = 0 /\ sc.called THEN Head(stack) ELSE p1
       IN PendingWalk(st, Tail(stack), p2)

PendingCancelScope(st, t) == PendingWalk(st, st.task[t].cancel_stack, 0)

\* a reschedule that leaves the abort callback in place
RescheduleKeepingAbort(st, t, next_send) ==
  [st EXCEPT !.task[t].next_send = next_send, !.runq = Append(@, t)]

\* a reschedule that calls no hook
RescheduleUnannounced(st, t, next_send) ==
  LET st1 == IF st.task[t].next_send.k # "None"
             THEN Fail(st, "reschedule: next_send is not None") ELSE st
  IN [st1 EXCEPT !.task[t].next_send = next_send,
                 !.task[t].abort_func = "None",
                 !.runq = Append(@, t)]

\* Runner.reschedule
Reschedule(st, t, next_send) ==
  LET st1 == IF st.task[t].next_send.k # "None"
             THEN Fail(st, "reschedule: next_send is not None") ELSE st
  IN InstrumentTask([st1 EXCEPT !.task[t].next_send = next_send,
                                !.task[t].abort_func = "None",
                                !.runq = Append(@, t)],
                    "task_scheduled", t)

\* the call of task._abort_func: what the registered callback does and returns.
\* "SUCCEEDED" and "FAILED" are the callbacks that only return that value;
\* "park" is the monitor queue's, which takes the task out of the lot;
\* "woken" is the wakeup channel's; "idle" is wait_run_loop_idle's, which
\* removes the task from waiting_for_idle; "lot" is ParkingLot.park's with the
\* default abort_func, which deletes the task's entry; "lot_failed" is
\* ParkingLot.park's with an abort_func that returns FAILED.
AbortFunc(st, t) ==
  LET af == st.task[t].abort_func
      n == Top(st, t).u
  IN IF af = "park"
     THEN [st |-> [st EXCEPT !.nursery[n].lot = SelectSeq(@, LAMBDA u : u # t)],
           success |-> TRUE]
     ELSE IF af = "lot"
     THEN [st |-> [st EXCEPT !.parked = SelectSeq(@, LAMBDA u : u # t)],
           success |-> TRUE]
     ELSE IF af = "idle"
     THEN [st |-> IF t \in st.waiting_for_idle
                  THEN [st EXCEPT !.waiting_for_idle = @ \ {t}]
                  ELSE Fail(st, "wait_run_loop_idle: KeyError"),
           success |-> TRUE]
     ELSE [st |-> st, success |-> af \notin {"FAILED", "lot_failed"}]

\* history: the abort callback of the task's blocking call has been called
Aborted(st, t, success) ==
  LET f == Top(st, t)
  IN [SetTop(st, t, [f EXCEPT !.n = IF @ < 2 THEN @ + 1 ELSE @])
        EXCEPT !.task[t].fa = @ \/ ~success]

\* an abort that reschedules the task whatever the callback returns
AttemptAbortAlways(st, t, out) ==
  Reschedule([Aborted(AbortFunc(st, t).st, t, AbortFunc(st, t).success)
                EXCEPT !.task[t].abort_func = "None"], t, out)

\* Task._attempt_abort, with Result.capture(raise_cancel) = out
AttemptAbort(st, t, out) ==
  LET r == AbortFunc(st, t)
      st1 == [Aborted(r.st, t, r.success) EXCEPT !.task[t].abort_func = "None"]
  IN IF r.success THEN Reschedule(st1, t, out) ELSE st1

\* CancelScope._make_exc
MakeExc(s) == Bare(CancelledExc(s))

\* a delivery that does not look at task._abort_func first
AttemptDeliveryOfAnyPendingCancelUnguarded(st, t) ==
  LET pending == PendingCancelScope(st, t)
  IN IF pending = 0 THEN st
     ELSE IF st.task[t].abort_func = "None"
     THEN Reschedule(st, t, Error(MakeExc(pending)))
     ELSE AttemptAbort(st, t, Error(MakeExc(pending)))

\* Task._attempt_delivery_of_any_pending_cancel
AttemptDeliveryOfAnyPendingCancel(st, t) ==
  IF st.task[t].abort_func = "None" THEN st
  ELSE LET pending == PendingCancelScope(st, t)
       IN IF pending = 0 THEN st
          ELSE AttemptAbort(st, t, Error(MakeExc(pending)))

\* Task._attempt_delivery_of_pending_ki: raise_cancel clears ki_pending when
\* it is called, which is at once when the abort succeeds
AttemptDeliveryOfPendingKI(st, t) ==
  LET st0 == IF st.ki_pending THEN st
             ELSE Fail(st, "_attempt_delivery_of_pending_ki: not pending")
  IN IF st0.task[t].abort_func = "None" THEN st0
     ELSE LET st1 == AttemptAbort(st0, t, Error(Bare(KeyboardInterrupt)))
          IN IF AbortFunc(st0, t).success
             THEN [st1 EXCEPT !.ki_pending = FALSE] ELSE st1

\* `for task in tasks: task._attempt_delivery_of_any_pending_cancel()`
RECURSIVE DeliverAll(_, _)
DeliverAll(st, S) ==
  IF S = {} THEN st
  ELSE LET t == Min(S)
       IN DeliverAll(AttemptDeliveryOfAnyPendingCancel(st, t), S \ {t})

\* a cancel that leaves the deadline index alone
CancelNoNotifyNoIndex(st, s) ==
  IF st.scope[s].called THEN st ELSE [st EXCEPT !.scope[s].called = TRUE]

\* CancelScope._cancel_no_notify: the state after it; the tasks it returns are
\* st.scope[s].tasks when the scope was not cancelled before
CancelNoNotify(st, s) ==
  IF st.scope[s].called THEN st
  ELSE MightChangeEffectiveDeadline([st EXCEPT !.scope[s].called = TRUE], s)

\* CancelScope.cancel
Cancel(st, s) ==
  IF st.scope[s].called THEN st
  ELSE DeliverAll(CancelNoNotify(st, s), st.scope[s].tasks)

\* CancelScope.deadline setter
SetDeadline(st, s, d) ==
  MightChangeEffectiveDeadline([st EXCEPT !.scope[s].deadline = d], s)

\* a shield setter that only stores the value
SetShieldOnly(st, s, b) == [st EXCEPT !.scope[s].shield = b]

\* CancelScope.shield setter
SetShield(st, s, b) ==
  LET st1 == [st EXCEPT !.scope[s].shield = b]
      st2 == DeliverAll(st1, st1.scope[s].tasks)
  IN IF b THEN st1
     ELSE [st2 EXCEPT !.scope[s].woke =
             @ \cup (SeqToSet(st2.runq) \ SeqToSet(st1.runq))]

\* CancelScope._add_task
AddTask(st, s, t) ==
  [st EXCEPT !.scope[s].tasks = @ \cup {t},
             !.task[t].cancel_stack = Append(@, s)]

\* CancelScope._remove_task
RemoveTask(st, s, t) ==
  LET st0 == IF t \in st.scope[s].tasks THEN st
             ELSE Fail(st, "_remove_task: KeyError")
      st1 == MightChangeEffectiveDeadline(
               [st0 EXCEPT !.scope[s].tasks = @ \ {t}], s)
      stack == st1.task[t].cancel_stack
      st2 == IF stack # <<>> /\ stack[Len(stack)] = s THEN st1
             ELSE Fail(st1, "_remove_task: not the innermost scope")
  IN [st2 EXCEPT !.task[t].cancel_stack = SubSeq(@, 1, Len(@) - 1)]

\* the bag e without any copy of cause c
Without(e, c) == [x \in (DOMAIN e) \ {c} |-> e[x]]

\* a filter that looks at a bare Cancelled only
FilterExceptionBareOnly(s, e) ==
  IF BagCardinality(e) = 1 /\ BagIn(CancelledExc(s), e)
  THEN [e |-> EmptyBag, caught |-> TRUE]
  ELSE [e |-> e, caught |-> FALSE]

\* CancelScope._filter_exception: the exception that is left (EmptyBag for
\* None) and whether cancel_caught was set
FilterException(s, e) ==
  LET own == CancelledExc(s)
  IN IF BagCardinality(e) = 1
     THEN IF BagIn(own, e)
          THEN [e |-> EmptyBag, caught |-> TRUE]
          ELSE [e |-> e, caught |-> FALSE]
     ELSE [e |-> Without(e, own), caught |-> BagIn(own, e)]

\* id() of a new CancelScope: an id no live scope has
HasFreeScope(st) == {s \in Scopes : ~st.scope[s].live} # {}
NewScope(st) == Min({s \in Scopes : ~st.scope[s].live})

\* open_cancel_scope, up to its yield: the new scope is NewScope(st)
OpenCancelScope(st, t, deadline, shield) ==
  LET s == NewScope(st)
      st1 == [st EXCEPT !.scope[s] = [FreshScope EXCEPT !.live = TRUE]]
  IN SetShield(SetDeadline(AddTask(st1, s, t), s, deadline), s, shield)

\* an exit that sets cancel_caught whenever the scope is cancelled
CloseCancelScopeCalled(st, t, s) ==
  LET st1 == [st EXCEPT !.scope[s].caught = @ \/ st.scope[s].called,
                        !.task[t].exc = Without(@, CancelledExc(s))]
      st2 == RemoveTask(st1, s, t)
  IN IF st2.scope[s].tasks # {} THEN st2
     ELSE [st2 EXCEPT !.scope[s] =
             [FreshScope EXCEPT !.caught = st2.scope[s].caught]]

\* open_cancel_scope, after its yield: the except and finally clauses, with the
\* exception in flight in the task.  A scope no task is bound to any more is
\* dead; the code that holds the object can still read its cancel_caught.
CloseCancelScope(st, t, s) ==
  LET e == st.task[t].exc
      f == IF e = EmptyBag THEN [e |-> e, caught |-> FALSE]
           ELSE FilterException(s, e)
      st1 == [st EXCEPT !.scope[s].caught = @ \/ f.caught,
                        !.task[t].exc = f.e]
      st2 == RemoveTask(st1, s, t)
  IN IF st2.scope[s].tasks # {} THEN st2
     ELSE [st2 EXCEPT !.scope[s] =
             [FreshScope EXCEPT !.caught = st2.scope[s].caught]]

\* the scope object of a with-block inside yield_briefly or _clean_up is
\* unreachable once the block is left
Forget(st, s) == [st EXCEPT !.scope[s] = FreshScope]

\* ------------------------------------------------------------- suspension
\* a yield that registers the abort callback and attempts no delivery
YieldIndefinitelyNoDelivery(st, t, abort_func) ==
  [st EXCEPT !.task[t].abort_func = abort_func]

\* run_impl, the task yielded yield_indefinitely(abort_func)
YieldIndefinitely(st, t, abort_func) ==
  LET st1 == AttemptDeliveryOfAnyPendingCancel(
               [st EXCEPT !.task[t].abort_func = abort_func], t)
  IN IF st1.ki_pending /\ t = MainTask
     THEN AttemptDeliveryOfPendingKI(st1, t) ELSE st1

\* a yield_briefly_no_cancel that the loop treats as a checkpoint
YieldBrieflyNoCancelDelivering(st, t) ==
  LET st1 == YieldIndefinitely(Push(st, t, Frame("nocancel", 0)), t,
                               "SUCCEEDED")
  IN IF st1.task[t].next_send.k = "None"
     THEN Reschedule(st1, t, Value(0)) ELSE st1

\* run_impl, the task yielded yield_briefly_no_cancel
YieldBrieflyNoCancel(st, t) ==
  Reschedule(Push(st, t, Frame("nocancel", 0)), t, Value(0))

\* a user-level yield_indefinitely
Sleep(st, t, abort_func) ==
  YieldIndefinitely(Push(st, t, [Frame("sleep", 0) EXCEPT !.af = abort_func]),
                    t, abort_func)

\* Runner.wait_run_loop_idle, up to its yield
WaitRunLoopIdle(st, t) ==
  YieldIndefinitely(Push([st EXCEPT !.waiting_for_idle = @ \cup {t}], t,
                         Frame("idle", 0)), t, "idle")

\* a yield_briefly whose scope has no deadline
YieldBrieflyForever(st, t) ==
  LET s == NewScope(st)
      st1 == OpenCancelScope(st, t, Inf, FALSE)
  IN YieldIndefinitely(Push(st1, t, Frame("brief", s)), t, "SUCCEEDED")

\* a yield_briefly that is a yield followed by an immediate reschedule
YieldBrieflyRescheduled(st, t) ==
  LET s == NewScope(st)
      st1 == OpenCancelScope(st, t, Inf, FALSE)
  IN Reschedule(Push(st1, t, Frame("brief", s)), t, Value(0))

\* yield_briefly, up to its yield
YieldBriefly(st, t) ==
  LET s == NewScope(st)
      st1 == OpenCancelScope(st, t, NegInf, FALSE)
  IN YieldIndefinitely(Push(st1, t, Frame("brief", s)), t, "SUCCEEDED")

\* ------------------------------------------------------------- nurseries
\* UnboundedQueue.put_nowait on the monitor of nursery n: the first item wakes
\* the task parked in get_all, or marks the queue readable
PutNowait(st, n, t) ==
  LET nu == st.nursery[n]
      st1 == IF nu.data # <<>> THEN st
             ELSE IF nu.lot # <<>>
             THEN Reschedule([st EXCEPT !.nursery[n].lot = Tail(@)],
                             Head(nu.lot), Value(0))
             ELSE [st EXCEPT !.nursery[n].can_get = TRUE]
  IN [st1 EXCEPT !.nursery[n].data = Append(@, t)]

\* UnboundedQueue: get_all's return of the queued items, to the task_batch of
\* Runner.init (Nursery._clean_up ignores what get_all returns)
GetAllProtected(st, t, n) ==
  [st EXCEPT !.nursery[n].data = <<>>,
             !.nursery[n].can_get = FALSE,
             !.task[t].got = IF t = InitTask /\ Top(st, t).k = "nursery"
                             THEN st.nursery[n].data ELSE <<>>]

\* UnboundedQueue.get_all, up to its yield: yield_if_cancelled, then park in
\* the lot when nothing is queued, else take the items and yield once
GetAll(st, t, n) ==
  IF PendingCancelScope(st, t) # 0 \/ (t = MainTask /\ st.ki_pending)
  THEN YieldBriefly(st, t)
  ELSE IF ~st.nursery[n].can_get
  THEN YieldIndefinitely(
         Push([st EXCEPT !.nursery[n].lot = Append(@, t)], t,
              [Frame("park", 0) EXCEPT !.u = n]), t, "park")
  ELSE YieldBrieflyNoCancel(GetAllProtected(st, t, n), t)

\* Nursery._child_finished
ChildFinished(st, n, t) ==
  PutNowait([st EXCEPT !.nursery[n].children = @ \ {t},
                       !.nursery[n].zombies = @ \cup {t}], n, t)

\* `for scope in nursery._cancel_stack: scope._add_task(task)`
RECURSIVE AddToAll(_, _, _)
AddToAll(st, stack, t) ==
  IF stack = <<>> THEN st
  ELSE AddToAll(AddTask(st, Head(stack), t), Tail(stack), t)

\* Runner.spawn_impl for an open nursery n (0 is None); t is the new Task
NewTask(st) == Min({t \in Tasks : ~st.task[t].born})
SpawnImpl(st, n, t) ==
  LET st1 == [st EXCEPT !.task[t] = [FreshTask EXCEPT !.born = TRUE,
                                                       !.nursery = n],
                        !.tasks = @ \cup {t}]
      st2 == IF n = 0 THEN st1
             ELSE AddToAll([st1 EXCEPT !.nursery[n].children = @ \cup {t}],
                           st1.nursery[n].cancel_stack, t)
  IN Reschedule(st2, t, NoneOut)

\* `while task._cancel_stack: task._cancel_stack[-1]._remove_task(task)`
RECURSIVE RemoveFromAll(_, _)
RemoveFromAll(st, t) ==
  LET stack == st.task[t].cancel_stack
  IN IF stack = <<>> THEN st
     ELSE RemoveFromAll(RemoveTask(st, stack[Len(stack)], t), t)

\* a notification that reaches one monitor only
NotifyMonitorsFirst(st, t) ==
  IF st.task[t].monitors = {} THEN st
  ELSE [st EXCEPT !.queues[Min(st.task[t].monitors)] = Append(@, t)]

\* `for monitor in task._monitors: monitor.put_nowait(task)`
NotifyMonitors(st, t) ==
  [st EXCEPT !.queues = [q \in Queues |-> IF q \in st.task[t].monitors
                                          THEN Append(@[q], t) ELSE @[q]]]

\* Runner.task_finished
TaskFinished(st, t, result) ==
  LET st1 == RemoveFromAll([st EXCEPT !.task[t].result = result], t)
      st2 == [st1 EXCEPT !.tasks = @ \ {t}]
      n == st.task[t].nursery
      st3 == IF n = 0
             THEN IF st2.tasks # {}
                  THEN Fail(st2, "task_finished: init is not last")
                  ELSE st2
             ELSE ChildFinished(st2, n, t)
  IN [NotifyMonitors(st3, t) EXCEPT !.task[t].monitors = {}]

\* Task.add_monitor(queue), called by task c on task t
AddMonitor(st, c, t, q) ==
  IF q \in st.task[t].monitors
  THEN [st EXCEPT !.task[c].exc = Bare(ValueError)]
  ELSE IF st.task[t].result.k # "None"
  THEN [st EXCEPT !.queues[q] = Append(@, t)]
  ELSE [st EXCEPT !.task[t].monitors = @ \cup {q}]

\* Task.discard_monitor(queue)
DiscardMonitor(st, t, q) == [st EXCEPT !.task[t].monitors = @ \ {q}]

\* UnboundedQueue.get_all_nowait, called by task c
GetAllNowait(st, c, q) ==
  IF st.queues[q] = <<>> THEN [st EXCEPT !.task[c].exc = Bare(WouldBlock)]
  ELSE [st EXCEPT !.queues[q] = <<>>]

\* run_impl: the coroutine returned or raised
Finish(st, t) ==
  LET tk == st.task[t]
      result == IF tk.exc # EmptyBag THEN Error(tk.exc) ELSE Value(tk.rv)
      st1 == [st EXCEPT !.task[t].exc = EmptyBag, !.task[t].rv = 0,
                        !.task[t].pc = "done", !.task[t].got = <<>>]
  IN TaskFinished(st1, t, result)

\* open_nursery, up to its yield
OpenNursery(st, t) ==
  LET s == NewScope(st)
      st1 == Push(OpenCancelScope(st, t, Inf, FALSE), t,
                  [Frame("nursery", s) EXCEPT !.u = t])
  IN [st1 EXCEPT !.nursery[t] =
        [FreshNursery EXCEPT !.open = TRUE, !.scope = s,
                             !.cancel_stack = st1.task[t].cancel_stack]]

\* open_nursery's finally clause up to the while loop of Nursery._clean_up:
\* the exception in flight becomes the first entry of `exceptions`
BeginCleanUp(st, t) ==
  LET s == NewScope(st)
      st1 == OpenCancelScope(st, t, Inf, FALSE)
  IN [Push(st1, t, [Frame("cleanup", s) EXCEPT !.u = t,
                                                !.x = st.task[t].exc,
                                                !.b = st.task[t].exc])
       EXCEPT !.task[t].exc = EmptyBag]

\* a reaping that keeps the error of one zombie only
ZombieErrorsOfOne(st, Z) ==
  IF Z = {} THEN EmptyBag
  ELSE LET z == Min(Z)
       IN IF st.task[z].result.k = "Error" THEN st.task[z].result.e
          ELSE EmptyBag

\* `for task in list(self._zombies):` - the errors appended to `exceptions`
RECURSIVE ZombieErrors(_, _)
ZombieErrors(st, Z) ==
  IF Z = {} THEN EmptyBag
  ELSE LET z == Min(Z)
       IN (IF st.task[z].result.k = "Error" THEN st.task[z].result.e
           ELSE EmptyBag) (+) ZombieErrors(st, Z \ {z})

\* the end of Nursery._clean_up and of open_nursery: leave the cleanup scope,
\* close the nursery, raise MultiError(exceptions), and leave the nursery's
\* own scope with it
CleanUpExit(st, t, exceptions) ==
  LET f == Top(st, t)
      st1 == Pop(Forget(CloseCancelScope(st, t, f.s), f.s), t)
      st2 == [st1 EXCEPT !.nursery[t].closed = TRUE,
                         !.task[t].exc = MultiError(<<exceptions>>)]
      g == Top(st2, t)
      st3 == Pop(CloseCancelScope(st2, t, g.s), t)
  IN [st3 EXCEPT !.nursery[t] =
                   [FreshNursery EXCEPT !.closed = TRUE,
                                        !.scope = st3.nursery[t].scope,
                                        !.cancel_stack =
                                          st3.nursery[t].cancel_stack,
                                        !.children = st3.nursery[t].children,
                                        !.zombies = st3.nursery[t].zombies,
                                        !.reaped = st3.nursery[t].reaped],
                 !.task[t].pc = IF t = InitTask THEN "ret" ELSE "run"]

\* a loop that only waits for the zombies
CleanUpLoopsOnZombies(nu) == nu.zombies # {}

\* `while self._children or self._zombies:`
CleanUpLoops(nu) == nu.children # {} \/ nu.zombies # {}

\* a test that forgets cancelled_children
ShouldCancelAgain(exceptions, cancelled_children) == exceptions # EmptyBag

\* `if exceptions and not cancelled_children:`
ShouldCancel(exceptions, cancelled_children) ==
  exceptions # EmptyBag /\ ~cancelled_children

\* Nursery._clean_up from the point where the parent runs in it (at its start
\* or resumed from monitor.get_all) to its next yield or its end
CleanUp(st, t) ==
  LET f == Top(st, t)
      e == st.task[t].exc
      cancelled == BagCardinality(e) = 1
                   /\ \A c \in BagToSet(e) : IsCancelled(c)
      \* except Cancelled: exceptions.append(exc); scope.shield = True
      \* except KeyboardInterrupt: exceptions.append(exc)
      st0 == IF e = EmptyBag \/ cancelled \/ e = Bare(KeyboardInterrupt) THEN st
             ELSE Fail(st, "_clean_up: TrioInternalError")
      st1 == IF cancelled
             THEN SetShield([st0 EXCEPT !.task[t].exc = EmptyBag], f.s, TRUE)
             ELSE [st0 EXCEPT !.task[t].exc = EmptyBag]
      x1 == f.x (+) e
      nu == st1.nursery[t]
      \* reap the zombies
      x2 == x1 (+) ZombieErrors(st1, nu.zombies)
      st2 == [st1 EXCEPT !.nursery[t].zombies = {}]
      docancel == ShouldCancel(x2, f.c)
      st3 == IF docancel THEN Cancel(st2, nu.scope) ELSE st2
      st4 == SetTop(st3, t, [f EXCEPT !.x = x2, !.c = f.c \/ docancel,
                                      !.n = @ + (IF docancel THEN 1 ELSE 0)])
  IN IF ~CleanUpLoops(nu) THEN CleanUpExit(st1, t, x1)
     ELSE IF st4.nursery[t].children # {} THEN GetAll(st4, t, t)
     ELSE CleanUpExit(st4, t, x2)

\* ------------------------------------------------------------- the run loop
InitRunner ==
  /\ loop = "start"
  /\ runq = <<>>
  /\ batch = {}
  /\ cur = 0
  /\ tasks = {}
  /\ deadlines = {}
  /\ now = 0
  /\ task = [t \in Tasks |-> FreshTask]
  /\ scope = [s \in Scopes |-> FreshScope]
  /\ nursery = [t \in Tasks |-> FreshNursery]
  /\ fault = "none"
  /\ csq = <<>>
  /\ csidem = NoKeys
  /\ csdone = FALSE
  /\ woken = FALSE
  /\ job = [j \in Jobs |-> [st |-> "new", runs |-> 0, at |-> "none",
                            key |-> 0, seq |-> 0, ran |-> 0, after |-> 0]]
  /\ ki = [pending |-> FALSE, signals |-> 0]
  /\ waiting_for_idle = {}
  /\ queues = [q \in Queues |-> <<>>]
  /\ parked = <<>>
  /\ hk = NoHooks
  /\ sig = NoReceiver
  /\ once = NoOnce
  /\ hist = [snap |-> {}, steps |-> [t \in Tasks |-> 0], expired |-> {},
             fresh |-> NoFresh]

\* run(fn): no instruments
Init == InitRunner /\ instruments = NoInstruments

\* run_impl: the spawn of the init task
RunImplStart ==
  /\ loop = "start"
  /\ loop' = "run"
  /\ Commit(SpawnImpl(Instrument(St, "before_run"), 0, InitTask))
  /\ UNCHANGED <<batch, cur, now, csq, csidem, csdone, job, hist>>

\* io_manager.handle_io(timeout): the only I/O of the model is the wakeup
\* channel, which call_soon_task waits on in wait_woken; the call returns
\* after at most timeout seconds, and the time that passes is the clock's
HandleIO(st, timeout) ==
  IF st.woken /\ st.task[CallSoonTask].abort_func = "woken"
  THEN Reschedule(st, CallSoonTask, Value(0))
  ELSE st

\* runner.deadlines.peekitem(0): the smallest key
FirstKey(D) ==
  CHOOSE k \in D : \A k2 \in D : k[1] < k2[1] \/ (k[1] = k2[1] /\ k[2] <= k2[2])

\* _MAX_TIMEOUT = 24 * 60 * 60
MAX_TIMEOUT == 86400

\* SystemClock.deadline_to_sleep_time, in seconds; one unit of the clock is
\* half a day, and -inf gives a negative time
DeadlineToSleepTime(deadline, time) == (deadline - time) * 43200

\* a timeout that is not clamped
TimeoutUnclamped(st, time) ==
  IF st.runq # <<>> \/ st.waiting_for_idle # {} THEN 0
  ELSE IF st.deadlines # {}
  THEN DeadlineToSleepTime(FirstKey(st.deadlines)[1], time)
  ELSE MAX_TIMEOUT

\* run_impl: the timeout of a pass, `timeout = min(max(0, timeout),
\* _MAX_TIMEOUT)`
Timeout(st, time) ==
  LET timeout == IF st.runq # <<>> \/ st.waiting_for_idle # {} THEN 0
                 ELSE IF st.deadlines # {}
                 THEN DeadlineToSleepTime(FirstKey(st.deadlines)[1], time)
                 ELSE MAX_TIMEOUT
      max0 == IF timeout < 0 THEN 0 ELSE timeout
  IN IF max0 < MAX_TIMEOUT THEN max0 ELSE MAX_TIMEOUT

\* run_impl: `if not runner.runq: while runner.waiting_for_idle:
\* runner.reschedule(runner.waiting_for_idle.pop())`
RECURSIVE RescheduleIdle(_)
RescheduleIdle(st) ==
  IF st.waiting_for_idle = {} THEN st
  ELSE LET t == Min(st.waiting_for_idle)
       IN RescheduleIdle(Reschedule([st EXCEPT !.waiting_for_idle = @ \ {t}],
                                    t, Value(0)))

\* a wake-up of the idle waiters that does not look at the run queue
WakeIdleAlways(st) == RescheduleIdle(st)

WakeIdle(st) == IF st.runq # <<>> THEN st ELSE RescheduleIdle(st)

\* run_impl: `while runner.deadlines:` - cancel every scope whose deadline has
\* passed, collecting the tasks to notify
RECURSIVE ExpireWalk(_, _, _)
ExpireWalk(st, time, cancelled_tasks) ==
  IF st.deadlines = {} THEN [st |-> st, cancelled_tasks |-> cancelled_tasks]
  ELSE LET k == FirstKey(st.deadlines)
       IN IF k[1] > time
          THEN [st |-> st, cancelled_tasks |-> cancelled_tasks]
          ELSE IF st.scope[k[2]].called
          THEN \* _cancel_no_notify leaves the key where it is: the loop spins
               [st |-> Fail(st, "run_impl: the deadline loop does not end"),
                cancelled_tasks |-> cancelled_tasks]
          ELSE ExpireWalk(CancelNoNotify(st, k[2]), time,
                          cancelled_tasks \cup st.scope[k[2]].tasks)

\* a deadline loop that notifies no task
ExpireDeadlinesQuietly(st, time) == ExpireWalk(st, time, {}).st

\* a deadline loop that notifies the tasks of each scope as it cancels it
RECURSIVE ExpireDeadlinesOneByOne(_, _)
ExpireDeadlinesOneByOne(st, time) ==
  IF st.deadlines = {} THEN st
  ELSE LET k == FirstKey(st.deadlines)
       IN IF k[1] > time \/ st.scope[k[2]].called THEN st
          ELSE ExpireDeadlinesOneByOne(Cancel(st, k[2]), time)

ExpireDeadlines(st, time) ==
  LET r == ExpireWalk(st, time, {})
  IN DeliverAll(r.st, r.cancelled_tasks)

\* a snapshot that misses the task at the head of the queue
SnapshotWithoutHead(q) == IF q = <<>> THEN {} ELSE SeqToSet(Tail(q))

\* `batch = list(runner.runq)`; the shuffle makes its order immaterial
Snapshot(q) == SeqToSet(q)

\* the clock moves; run_impl reads it only at the top of a pass, so it is
\* enough to let it move there
Tick ==
  /\ loop = "run" /\ cur = 0 /\ batch = {} /\ now < MaxTime
  /\ now' = now + 1
  /\ UNCHANGED <<loop, runq, batch, cur, tasks, deadlines, task, scope, nursery,
                 fault, csq, csidem, csdone, woken, job, hist, ki,
                 instruments, waiting_for_idle, queues, parked, hk, sig, once>>

\* run_impl: one pass of `while runner.tasks:` up to `while batch:`
\* the clock moves, up to the last finite deadline but one
TickAhead ==
  /\ loop = "run" /\ cur = 0 /\ batch = {} /\ now < MaxTime + MaxAhead - 1
  /\ now' = now + 1
  /\ UNCHANGED <<loop, runq, batch, cur, tasks, deadlines, task, scope, nursery,
                 fault, csq, csidem, csdone, woken, job, hist, ki,
                 instruments, waiting_for_idle, queues, parked, hk, sig, once>>

LoopIteration ==
  /\ loop = "run" /\ cur = 0 /\ batch = {} /\ tasks # {}
  /\ LET st == WakeIdle(ExpireDeadlines(
                 Instrument(HandleIO(Instrument(St, "before_io_wait"),
                                     Timeout(St, now)),
                            "after_io_wait"), now))
     IN /\ Commit([st EXCEPT !.runq = <<>>])
        /\ batch' = Snapshot(st.runq)
        /\ hist' = [snap |-> Snapshot(st.runq), steps |-> [t \in Tasks |-> 0],
                    fresh |-> NoFresh,
                    expired |-> {s \in Scopes : st.scope[s].called
                                                  /\ ~scope[s].called}]
  /\ UNCHANGED <<loop, cur, now, csq, csidem, csdone, job>>

\* run_impl: `while runner.tasks:` ends, run_impl returns
LoopExit ==
  /\ loop = "run" /\ cur = 0 /\ batch = {} /\ tasks = {}
  /\ loop' = "closed"
  /\ Commit(Instrument(St, "after_run"))
  /\ UNCHANGED <<batch, cur, now, csq, csidem, csdone, job, hist>>

\* task.coro.send(next_send): the coroutine takes the value at the point where
\* it is suspended and leaves the blocking call it is in
Resume(st, t, next_send) ==
  LET st0 == [st EXCEPT !.task[t].exc =
                IF next_send.k = "Error" THEN next_send.e ELSE EmptyBag]
  IN IF st.task[t].frames = <<>>
     THEN [st0 EXCEPT !.task[t].pc = IF @ = "kill" THEN @ ELSE "run"]
     ELSE LET f == Top(st, t)
              st1 == Pop(st0, t)
          IN CASE f.k = "brief" -> Forget(CloseCancelScope(st1, t, f.s), f.s)
               [] f.k = "park" /\ next_send.k # "Error" ->
                    GetAllProtected(st1, t, f.u)
               [] f.k = "woken" /\ next_send.k # "Error" ->
                    [st1 EXCEPT !.woken = FALSE]
               [] OTHER -> st1

\* history: what the task was resumed with, noted in the frames it concerns
Received(st, t) ==
  LET e == st.task[t].exc
      note(f) ==
        IF f.k = "scope" /\ BagIn(CancelledExc(f.s), e)
        THEN [f EXCEPT !.n = IF @ < 2 THEN @ + 1 ELSE @]
        ELSE f
      st1 == [st EXCEPT !.task[t].frames =
                [i \in DOMAIN @ |-> note(@[i])]]
  IN IF e # EmptyBag /\ st1.task[t].frames # <<>> /\ Top(st1, t).k = "cleanup"
     THEN SetTop(st1, t, [Top(st1, t) EXCEPT !.r = @ (+) e])
     ELSE st1

\* run_impl: batch.pop() of the shuffled batch, and the send into the task
StepBegin(t) ==
  /\ loop = "run" /\ cur = 0 /\ t \in batch
  /\ cur' = t
  /\ batch' = batch \ {t}
  /\ hist' = [hist EXCEPT !.steps[t] = IF @ < 2 THEN @ + 1 ELSE @,
                          !.expired = {}, !.fresh = NoFresh]
  /\ Commit(Received(Resume([InstrumentTask(St, "before_task_step", t)
                               EXCEPT !.task[t].next_send = NoneOut], t,
                            task[t].next_send), t))
  /\ UNCHANGED <<loop, now, csq, csidem, csdone, job>>

\* the current task runs a piece of code that does not yield
Runs(t, st) ==
  /\ Commit(st)
  /\ UNCHANGED <<loop, batch, cur, now, csq, csidem, csdone, job, hist>>

\* the current task runs a piece of code that ends in a yield or a return
Yields(t, st) ==
  /\ Commit(InstrumentTask(st, "after_task_step", t))
  /\ cur' = 0
  /\ UNCHANGED <<loop, batch, now, csq, csidem, csdone, job, hist>>

Running(t) == loop = "run" /\ cur = t
InBody(t) == Running(t) /\ task[t].pc = "run" /\ task[t].exc = EmptyBag
TopIs(t, k) == task[t].frames # <<>> /\ Top(St, t).k = k

\* ------------------------------------------------------------- Runner.init
\* the first step: open the system nursery, spawn call_soon_task and the main
\* task, and wait on the nursery's monitor
InitFirstStep ==
  /\ InBody(InitTask) /\ task[InitTask].frames = <<>>
  /\ LET st1 == OpenNursery(St, InitTask)
         st2 == SpawnImpl(st1, InitTask, CallSoonTask)
         st3 == SpawnImpl(st2, InitTask, MainTask)
     IN Yields(InitTask, GetAll([st3 EXCEPT !.task[InitTask].pc = "for"],
                                InitTask, InitTask))

\* `for task in task_batch:` - the state when the loop is left, by its return
\* (pc "leave"), by the exception of reap_and_unwrap, or at its end
\* a loop that returns None when it finds the main task
RECURSIVE InitForLoopReturningNone(_, _)
InitForLoopReturningNone(st, task_batch) ==
  IF task_batch = <<>> THEN st
  ELSE LET t == Head(task_batch)
           st1 == IF t = MainTask
                  THEN Cancel(st, st.nursery[InitTask].scope) ELSE st
           st2 == IF t \in st1.nursery[InitTask].zombies
                  THEN [st1 EXCEPT !.nursery[InitTask].zombies = @ \ {t},
                                   !.nursery[InitTask].reaped = @ \cup {t}]
                  ELSE Fail(st1, "reap: not a zombie")
           r == st.task[t].result
       IN IF r.k = "Error"
          THEN [st2 EXCEPT !.task[InitTask].exc = r.e,
                           !.task[InitTask].pc = "leave"]
          ELSE IF t = MainTask
          THEN [st2 EXCEPT !.task[InitTask].rv = 0,
                           !.task[InitTask].pc = "leave"]
          ELSE InitForLoopReturningNone(st2, Tail(task_batch))

RECURSIVE InitForLoop(_, _)
InitForLoop(st, task_batch) ==
  IF task_batch = <<>> THEN st
  ELSE LET t == Head(task_batch)
           st1 == IF t = MainTask
                  THEN Cancel(st, st.nursery[InitTask].scope) ELSE st
           st2 == IF t \in st1.nursery[InitTask].zombies
                  THEN [st1 EXCEPT !.nursery[InitTask].zombies = @ \ {t},
                                   !.nursery[InitTask].reaped = @ \cup {t}]
                  ELSE Fail(st1, "reap: not a zombie")
           r == st.task[t].result
       IN IF r.k = "Error"
          THEN [st2 EXCEPT !.task[InitTask].exc = r.e,
                           !.task[InitTask].pc = "leave"]
          ELSE IF t = MainTask
          THEN [st2 EXCEPT !.task[InitTask].rv = r.v,
                           !.task[InitTask].pc = "leave"]
          ELSE InitForLoop(st2, Tail(task_batch))

\* resumed in `async for task_batch in system_nursery.monitor`
InitFor ==
  /\ Running(InitTask) /\ task[InitTask].pc = "for"
  /\ TopIs(InitTask, "nursery")
  /\ LET st0 == [St EXCEPT !.task[InitTask].got = <<>>]
         st1 == IF task[InitTask].exc # EmptyBag
                THEN [st0 EXCEPT !.task[InitTask].pc = "leave"]
                ELSE InitForLoop(st0, task[InitTask].got)
     IN IF st1.task[InitTask].pc = "leave"
        THEN Runs(InitTask, st1)
        ELSE Yields(InitTask, GetAll(st1, InitTask, InitTask))

\* ------------------------------------------------------------- coroutines
SuspensionKinds ==
  {"sleep", "nocancel", "brief", "park", "woken", "idle", "lot"}
Suspended(st, t) ==
  st.task[t].frames # <<>> /\ Top(st, t).k \in SuspensionKinds

\* the current task runs a piece of code up to its next yield, if it has one
Step(t, st) ==
  /\ Commit(IF Suspended(st, t) \/ st.task[t].pc = "done"
            THEN InstrumentTask(st, "after_task_step", t) ELSE st)
  /\ cur' = IF Suspended(st, t) \/ st.task[t].pc = "done" THEN 0 ELSE t
  /\ UNCHANGED <<loop, batch, now, csq, csidem, csdone, job, hist>>

\* control leaves the body of `async with open_nursery()`: by the return of
\* Runner.init, by an exception, or because user code reaches the block's end
LeaveBody(t) ==
  /\ Running(t) /\ TopIs(t, "nursery")
  /\ task[t].pc = "leave" \/ (t # InitTask /\ task[t].pc = "run")
  /\ HasFreeScope(St)
  /\ Step(t, CleanUp(BeginCleanUp([St EXCEPT !.task[t].pc = "leave"], t), t))

\* the parent is resumed inside Nursery._clean_up
CleanUpResume(t) ==
  /\ Running(t) /\ TopIs(t, "cleanup")
  /\ Step(t, CleanUp(St, t))

\* Runner.init returns
InitReturn ==
  /\ Running(InitTask) /\ task[InitTask].pc = "ret"
  /\ Step(InitTask, Finish(St, InitTask))

\* run(), after run_impl has returned and the runner is closed: what it
\* returns or raises; the test of ki_pending in the outer finally comes last
RunResult ==
  IF ki.pending THEN Error(Bare(KeyboardInterrupt))
  ELSE task[InitTask].result

\* ------------------------------------------------------------- call_soon
\* the lock is held by the thread that is inside
\* call_soon_thread_and_signal_safe
LockFree == \A j \in Jobs : job[j].st \notin {"locked", "appended"}

\* call_soon_thread_and_signal_safe from a foreign thread: take the lock and
\* test call_soon_done
\* an entry that does not test call_soon_done
CallSoonEnterUnchecked(done) == "locked"

\* `if self.call_soon_done: raise RunFinishedError`
CallSoonEnter(done) == IF done THEN "refused" ELSE "locked"

\* history: where the run was when a call was made
Phase ==
  IF loop = "closed" THEN "closed"
  ELSE IF csdone THEN "done"
  ELSE IF nursery[InitTask].open /\ scope[nursery[InitTask].scope].called
  THEN "cancelling"
  ELSE loop

ThreadEnter(j) ==
  /\ job[j].st = "new" /\ LockFree
  /\ job' = [job EXCEPT ![j].st = CallSoonEnter(csdone), ![j].at = Phase]
  /\ UNCHANGED <<loop, runq, batch, cur, tasks, deadlines, now, task, scope,
                 nursery, fault, csq, csidem, csdone, woken, hist, ki,
                 instruments, waiting_for_idle, queues, parked, hk, sig, once>>

\* self.call_soon_queue.append((fn, args))
ThreadAppend(j) ==
  /\ job[j].st = "locked"
  /\ csq' = Append(csq, j)
  /\ job' = [job EXCEPT ![j].st = "appended",
                        ![j].seq = 1 + Cardinality({i \in Jobs : job[i].seq > 0}),
                        ![j].after = Cardinality({i \in Jobs : job[i].ran > 0})]
  /\ UNCHANGED <<loop, runq, batch, cur, tasks, deadlines, now, task, scope,
                 nursery, fault, csidem, csdone, woken, hist, ki, instruments, waiting_for_idle, queues, parked, hk, sig, once>>

\* self.call_soon_idempotent_queue[(fn, args)] = None
IdempotentPut(c, k) ==
  [c EXCEPT !.q = @ \cup {k}, !.puts[k] = @ + 1,
            !.groups[k] = IF k \in c.q THEN @ ELSE @ + 1]

\* the call was made with idempotent=True and the key k
ThreadPut(j, k) ==
  /\ job[j].st = "locked"
  /\ csidem' = IdempotentPut(csidem, k)
  /\ job' = [job EXCEPT ![j].st = "appended", ![j].key = k]
  /\ UNCHANGED <<loop, runq, batch, cur, tasks, deadlines, now, task, scope,
                 nursery, fault, csq, csdone, woken, hist, ki, instruments, waiting_for_idle, queues, parked, hk, sig, once>>

\* self.call_soon_wakeup.wakeup_thread_and_signal_safe(), and the lock's release
ThreadWakeup(j) ==
  /\ job[j].st = "appended"
  /\ woken' = TRUE
  /\ job' = [job EXCEPT ![j].st = "queued"]
  /\ UNCHANGED <<loop, runq, batch, cur, tasks, deadlines, now, task, scope,
                 nursery, fault, csq, csidem, csdone, hist, ki, instruments, waiting_for_idle, queues, parked, hk, sig, once>>

CsRuns(st) ==
  /\ Commit(st)
  /\ UNCHANGED <<loop, batch, cur, now, hist>>

\* a run_all_bounded that runs nothing from call_soon_queue
RunAllBoundedNone(st, next) ==
  [st EXCEPT !.task[CallSoonTask].pc = next,
             !.task[CallSoonTask].rv = 0]

\* run_all_bounded: `for _ in range(len(self.call_soon_queue))` fixes the
\* number of callbacks of this pass
RunAllBounded(st, next) ==
  [st EXCEPT !.task[CallSoonTask].pc = next,
             !.task[CallSoonTask].rv = Len(csq)]

\* `while True: run_all_bounded()`
CsPass ==
  /\ InBody(CallSoonTask)
  /\ CsRuns(RunAllBounded(St, "pass"))
  /\ UNCHANGED <<csq, csidem, csdone, job>>

\* run_cb(self.call_soon_queue.popleft())
\* a run_cb that drops the job
RunCbDropped(jobs, j) == jobs

\* run_cb(job): fn(*args) runs
RunCb(jobs, j) ==
  [jobs EXCEPT ![j].runs = @ + 1,
               ![j].ran = 1 + Cardinality({i \in Jobs : jobs[i].ran > 0})]

\* a system_task_wrapper that lets every exception through
SystemTaskWrapperTransparent(e) == e

\* system_task_wrapper: Cancelled, KeyboardInterrupt and TrioInternalError are
\* re-raised; anything else, an aggregate of several exceptions included,
\* becomes `TrioInternalError from exc`
SystemTaskWrapper(e) ==
  IF e = EmptyBag THEN e
  ELSE IF \E c \in BagToSet(e) :
            /\ e = Bare(c)
            /\ c.k \in {"Cancelled", "KeyboardInterrupt", "TrioInternalError"}
  THEN e
  ELSE Bare(TrioInternalError)

\* run_cb when fn(*args) raises exc:
\* self.spawn_system_task(kill_everything, exc); the new task belongs to the
\* system nursery and keeps exc as its argument
SpawnSystemTask(st, exc) ==
  LET t == NewTask(st)
  IN IF st.nursery[InitTask].closed
     THEN [st EXCEPT !.task[CallSoonTask].exc = Bare(RuntimeError)]
     ELSE [SpawnImpl(st, InitTask, t) EXCEPT !.task[t].pc = "kill",
                                             !.task[t].arg = Bare(exc)]

\* a pop from the right end of the queue
PopRight(q) == [job |-> q[Len(q)], rest |-> SubSeq(q, 1, Len(q) - 1)]

\* self.call_soon_queue.popleft()
PopLeft(q) == [job |-> Head(q), rest |-> Tail(q)]

\* a _deliver_ki_cb that clears ki_pending without resuming the main task
DeliverKiCbSwallowing(st) == [st EXCEPT !.ki_pending = FALSE]

\* Runner._deliver_ki_cb, the callback deliver_ki queues
DeliverKiCb(st) ==
  IF ~st.ki_pending THEN st
  ELSE IF st.task[MainTask].result.k # "None" THEN st
  ELSE AttemptDeliveryOfPendingKI(st, MainTask)

\* the queue holds 0 for _deliver_ki_cb and j for the callback of job j
KiJob == 0

CsRunCb ==
  /\ Running(CallSoonTask)
  /\ task[CallSoonTask].pc \in {"pass", "residual"}
  /\ task[CallSoonTask].rv > 0
  /\ csq' = PopLeft(csq).rest
  /\ LET st == [St EXCEPT !.task[CallSoonTask].rv = @ - 1]
     IN IF PopLeft(csq).job = KiJob
        THEN job' = job /\ CsRuns(DeliverKiCb(st))
        ELSE job' = RunCb(job, PopLeft(csq).job) /\ CsRuns(st)
  /\ UNCHANGED <<csidem, csdone>>

\* run_cb for a callback that raises exc
CsRunCbRaising(exc) ==
  /\ Running(CallSoonTask)
  /\ task[CallSoonTask].pc \in {"pass", "residual"}
  /\ task[CallSoonTask].rv > 0
  /\ PopLeft(csq).job # KiJob
  /\ exc \in {CallbackExc(PopLeft(csq).job), KeyboardInterrupt}
  /\ {t \in Tasks : ~task[t].born} # {}
  /\ csq' = PopLeft(csq).rest
  /\ job' = RunCb(job, PopLeft(csq).job)
  /\ CsRuns(SpawnSystemTask([St EXCEPT !.task[CallSoonTask].rv = @ - 1], exc))
  /\ UNCHANGED <<csidem, csdone>>

\* the only step of a kill_everything task: `raise exc` inside
\* system_task_wrapper
KillEverything(t) ==
  /\ Running(t) /\ task[t].pc = "kill"
  /\ Step(t, Finish([St EXCEPT !.task[t].exc =
                        SystemTaskWrapper(task[t].arg)], t))

\* run_all_bounded: `for job in list(self.call_soon_idempotent_queue)`
CsSnapshot ==
  /\ Running(CallSoonTask)
  /\ task[CallSoonTask].pc \in {"pass", "residual"}
  /\ task[CallSoonTask].rv = 0
  /\ csidem' = [csidem EXCEPT !.todo = csidem.q]
  /\ CsRuns([St EXCEPT !.task[CallSoonTask].pc =
                IF @ = "pass" THEN "pass2" ELSE "residual2"])
  /\ UNCHANGED <<csq, csdone, job>>

\* a take that leaves the key in the queue
IdempotentTakeKeeping(c, k) ==
  [c EXCEPT !.todo = @ \ {k}, !.runs[k] = @ + 1]

\* `del self.call_soon_idempotent_queue[job]; run_cb(job)`
IdempotentTake(c, k) ==
  [c EXCEPT !.q = @ \ {k}, !.todo = @ \ {k}, !.runs[k] = @ + 1]

CsRunIdempotent(k) ==
  /\ Running(CallSoonTask)
  /\ task[CallSoonTask].pc \in {"pass2", "residual2"}
  /\ k \in csidem.todo
  /\ csidem' = IdempotentTake(csidem, k)
  /\ CsRuns(St)
  /\ UNCHANGED <<csq, csdone, job>>

\* the job a callback queues again when it runs (naughty_cb of
\* test_call_soon_starvation_resistance)
NaughtyJob == 1

\* a call from a callback that also extends the walk over the idempotent
\* queue that is under way
CallSoonFromCallbackLive(q, c, h, done, idempotent, k, late) ==
  IF done THEN [csq |-> q, csidem |-> c, fresh |-> h]
  ELSE IF idempotent
  THEN [csq |-> q,
        csidem |-> [c EXCEPT !.q = @ \cup {k},
                             !.todo = IF late THEN @ \cup {k} ELSE @],
        fresh |-> IF k \in c.q THEN h
                  ELSE IF late THEN [h EXCEPT !.late = @ \cup {k}]
                  ELSE [h EXCEPT !.early = @ \cup {k}]]
  ELSE [csq |-> Append(q, NaughtyJob), csidem |-> c,
        fresh |-> [h EXCEPT !.plain = @ + 1]]

\* call_soon_thread_and_signal_safe(naughty_cb, idempotent=...) called by a
\* callback that run_all_bounded is running, on the queues q and c as the
\* callback finds them: RunFinishedError (which naughty_cb catches) when
\* call_soon_done is set, else the item is stored.  late tells whether the
\* walk over the idempotent queue has begun.
CallSoonFromCallback(q, c, h, done, idempotent, k, late) ==
  IF CallSoonEnter(done) = "refused" THEN [csq |-> q, csidem |-> c, fresh |-> h]
  ELSE IF idempotent
  THEN [csq |-> q, csidem |-> [c EXCEPT !.q = @ \cup {k}],
        fresh |-> IF k \in c.q THEN h
                  ELSE IF late THEN [h EXCEPT !.late = @ \cup {k}]
                  ELSE [h EXCEPT !.early = @ \cup {k}]]
  ELSE [csq |-> Append(q, NaughtyJob), csidem |-> c,
        fresh |-> [h EXCEPT !.plain = @ + 1]]

\* what a callback's call leaves behind
CalledSoon(r) ==
  /\ csq' = r.csq
  /\ csidem' = r.csidem
  /\ hist' = [hist EXCEPT !.fresh = r.fresh]
  /\ Commit([St EXCEPT !.woken = IF csdone THEN @ ELSE TRUE])
  /\ UNCHANGED <<loop, batch, cur, now, csdone, job>>

\* run_cb(self.call_soon_queue.popleft()) for a callback that queues itself
\* again, with idempotent=idempotent and the key k
CsRunCbNaughty(idempotent, k) ==
  /\ Running(CallSoonTask)
  /\ task[CallSoonTask].pc \in {"pass", "residual"}
  /\ task[CallSoonTask].rv > 0
  /\ PopLeft(csq).job = NaughtyJob /\ LockFree
  /\ LET r == CallSoonFromCallback(PopLeft(csq).rest, csidem, hist.fresh,
                                   csdone, idempotent, k, FALSE)
     IN /\ csq' = r.csq
        /\ csidem' = r.csidem
        /\ hist' = [hist EXCEPT !.fresh = r.fresh]
        /\ Commit([St EXCEPT !.task[CallSoonTask].rv = @ - 1,
                             !.woken = IF csdone THEN @ ELSE TRUE])
        /\ UNCHANGED <<loop, batch, cur, now, csdone, job>>

\* `del self.call_soon_idempotent_queue[job]; run_cb(job)` for a callback
\* that queues itself again
CsRunIdempotentNaughty(k, idempotent) ==
  /\ Running(CallSoonTask)
  /\ task[CallSoonTask].pc \in {"pass2", "residual2"}
  /\ k \in csidem.todo /\ LockFree
  /\ CalledSoon(CallSoonFromCallback(
                  csq, [csidem EXCEPT !.q = @ \ {k}, !.todo = @ \ {k}],
                  hist.fresh, csdone, idempotent, k, TRUE))

\* call_soon_thread_and_signal_safe(naughty_cb) called by task t;
\* RunFinishedError is a RuntimeError
UCallSoon(t) ==
  /\ InBody(t) /\ LockFree
  /\ Len(csq) + Cardinality(csidem.q) < MaxJobs
  /\ IF CallSoonEnter(csdone) = "refused"
     THEN /\ Commit([St EXCEPT !.task[t].exc = Bare(RuntimeError)])
          /\ UNCHANGED <<csq>>
     ELSE /\ csq' = Append(csq, NaughtyJob)
          /\ Commit([St EXCEPT !.woken = TRUE])
  /\ UNCHANGED <<loop, batch, cur, now, csidem, csdone, job, hist>>

\* SIGINT arrives while run_impl itself runs, between two task steps: the
\* handler calls Runner.deliver_ki, which sets ki_pending and queues
\* _deliver_ki_cb unless call_soon_done is set; the handler runs on the loop
\* thread and is atomic for it
DeliverKi ==
  /\ loop = "run" /\ cur = 0
  /\ ki.signals < MaxSignals /\ LockFree
  /\ ki' = [pending |-> TRUE, signals |-> ki.signals + 1]
  /\ IF csdone THEN UNCHANGED <<csq, woken>>
     ELSE csq' = Append(csq, KiJob) /\ woken' = TRUE
  /\ UNCHANGED <<loop, runq, batch, cur, tasks, deadlines, now, task, scope,
                 nursery, fault, csidem, csdone, job, hist, instruments, waiting_for_idle, queues, parked, hk, sig, once>>

\* SIGINT arrives while call_soon_task is being stepped: the handler runs on
\* the loop thread between two of its operations.  The lock is an RLock of
\* that thread, so the handler is not held up by the `with` of the shutdown;
\* it waits for a foreign thread that holds the lock.
DeliverKiDraining ==
  /\ Running(CallSoonTask)
  /\ ki.signals < MaxSignals /\ LockFree
  /\ ki' = [pending |-> TRUE, signals |-> ki.signals + 1]
  /\ IF CallSoonEnter(csdone) = "refused" THEN UNCHANGED <<csq, woken, hist>>
     ELSE /\ csq' = Append(csq, KiJob) /\ woken' = TRUE
          /\ hist' = [hist EXCEPT !.fresh.plain = @ + 1]
  /\ UNCHANGED <<loop, runq, batch, cur, tasks, deadlines, now, task, scope,
                 nursery, fault, csidem, csdone, job, instruments,
                 waiting_for_idle, queues, parked, hk, sig, once>>

\* after a pass: wait_woken when the queue is empty, else yield_briefly
CsWait ==
  /\ Running(CallSoonTask)
  /\ task[CallSoonTask].pc = "pass2" /\ csidem.todo = {}
  /\ LET st == [St EXCEPT !.task[CallSoonTask].pc = "run"]
     IN IF csq = <<>> /\ csidem.q = {}
        THEN Yields(CallSoonTask,
                    YieldIndefinitely(Push(st, CallSoonTask, Frame("woken", 0)),
                                      CallSoonTask, "woken"))
        ELSE HasFreeScope(St) /\ Yields(CallSoonTask, YieldBriefly(st, CallSoonTask))

\* `except Cancelled:` - set call_soon_done under the lock, then the residual
\* run_all_bounded
CsShutdown ==
  /\ Running(CallSoonTask) /\ task[CallSoonTask].pc = "run"
  /\ task[CallSoonTask].exc # EmptyBag
  /\ LockFree
  /\ csdone' = TRUE
  /\ CsRuns(RunAllBounded([St EXCEPT !.task[CallSoonTask].exc = EmptyBag],
                          "residual"))
  /\ UNCHANGED <<csq, csidem, job>>

\* the asserts after the residual pass, and the return of call_soon_task
CsReturn ==
  /\ Running(CallSoonTask)
  /\ task[CallSoonTask].pc = "residual2" /\ csidem.todo = {}
  /\ Step(CallSoonTask,
          Finish(IF csq = <<>> /\ csidem.q = {} THEN St
                 ELSE Fail(St, "call_soon_task: queue not empty"), CallSoonTask))

\* ------------------------------------------------------------- user code
\* What a user coroutine may do while it runs.  The scopes user code can name
\* are those of its with-blocks and nursery.cancel_scope; the scopes inside
\* yield_briefly and _clean_up are local to them.
UserScopes ==
  {s \in Scopes : \E t \in UserTasks : \E i \in DOMAIN task[t].frames :
     task[t].frames[i].k \in {"scope", "nursery"} /\ task[t].frames[i].s = s}

Depth(t) == Cardinality({i \in DOMAIN task[t].frames : task[t].frames[i].k = "scope"})

\* await yield_briefly()
UYieldBriefly(t) ==
  /\ InBody(t) /\ HasFreeScope(St)
  /\ Step(t, YieldBriefly(St, t))

\* await wait_run_loop_idle()
UWaitIdle(t) ==
  /\ InBody(t)
  /\ Step(t, WaitRunLoopIdle(St, t))

\* await yield_briefly_no_cancel()
UYieldBrieflyNoCancel(t) ==
  /\ InBody(t)
  /\ Step(t, YieldBrieflyNoCancel(St, t))

\* await yield_indefinitely(lambda _: abort_func)
USleep(t, abort_func) ==
  /\ InBody(t)
  /\ Step(t, Sleep(St, t, abort_func))

\* with open_cancel_scope(deadline=..., shield=...): entry
UOpenScope(t, deadline, shield) ==
  /\ InBody(t) /\ Depth(t) < MaxDepth /\ HasFreeScope(St)
  /\ Step(t, Push(OpenCancelScope(St, t, deadline, shield), t,
                  Frame("scope", NewScope(St))))

\* with open_cancel_scope(deadline=..., shield=...): entry, nested more deeply
UOpenNested(t, deadline, shield) ==
  /\ InBody(t) /\ Depth(t) < MaxNest /\ HasFreeScope(St)
  /\ Step(t, Push(OpenCancelScope(St, t, deadline, shield), t,
                  Frame("scope", NewScope(St))))

\* with open_cancel_scope(): exit, at the block's end or by an exception
UCloseScope(t) ==
  /\ Running(t) /\ task[t].pc = "run" /\ TopIs(t, "scope")
  /\ Step(t, Pop(CloseCancelScope(St, t, Top(St, t).s), t))

\* scope.cancel()
UCancel(t, s) ==
  /\ InBody(t) /\ s \in UserScopes /\ ~scope[s].called
  /\ Step(t, Cancel(St, s))

\* scope.deadline = deadline
USetDeadline(t, s, deadline) ==
  /\ InBody(t) /\ s \in UserScopes /\ scope[s].deadline # deadline
  /\ Step(t, SetDeadline(St, s, deadline))

\* scope.shield = shield
USetShield(t, s, shield) ==
  /\ InBody(t) /\ s \in UserScopes /\ scope[s].shield # shield
  /\ Step(t, SetShield(St, s, shield))

\* async with open_nursery(): entry
UOpenNursery(t) ==
  /\ InBody(t) /\ ~nursery[t].open /\ ~nursery[t].closed /\ HasFreeScope(St)
  /\ Step(t, OpenNursery(St, t))

\* a spawn that does not look at nursery._closed
NurserySpawnUnchecked(st, t, n) == SpawnImpl(st, n, NewTask(st))

\* Nursery.spawn called by task t, and the head of spawn_impl:
\* `if nursery is not None and nursery._closed: raise RuntimeError`
NurserySpawn(st, t, n) ==
  IF n # 0 /\ st.nursery[n].closed
  THEN [st EXCEPT !.task[t].exc = Bare(RuntimeError)]
  ELSE SpawnImpl(st, n, NewTask(st))

\* nursery.spawn(fn)
USpawn(t, n) ==
  /\ InBody(t) /\ n \in UserTasks /\ nursery[n].open
  /\ {u \in Tasks : ~task[u].born} # {}
  /\ Step(t, NurserySpawn(St, t, n))

\* nursery.spawn(fn) on a nursery object kept after its block was left
USpawnClosed(t, n) ==
  /\ InBody(t) /\ n \in UserTasks /\ nursery[n].closed
  /\ Step(t, NurserySpawn(St, t, n))

\* u.add_monitor(q)
UAddMonitor(t, u, q) ==
  /\ InBody(t) /\ task[u].born
  /\ Len(queues[q]) + Cardinality({c \in Tasks : q \in task[c].monitors})
       < MaxQueued + (IF q \in task[u].monitors THEN 1 ELSE 0)
  /\ Step(t, AddMonitor(St, t, u, q))

\* u.discard_monitor(q)
UDiscardMonitor(t, u, q) ==
  /\ InBody(t) /\ task[u].born
  /\ Step(t, DiscardMonitor(St, u, q))

\* q.get_all_nowait()
UGetAllNowait(t, q) ==
  /\ InBody(t)
  /\ Step(t, GetAllNowait(St, t, q))

\* ParkingLot.park(abort_func=...), up to its yield; abort_func is "lot" or
\* "lot_failed"
Park(st, t, abort_func) ==
  YieldIndefinitely(Push([st EXCEPT !.parked = Append(@, t)], t,
                         Frame("lot", 0)), t, abort_func)

\* an unpark that takes the tasks parked last
RECURSIVE UnparkNewest(_, _)
UnparkNewest(st, count) ==
  IF count = 0 \/ st.parked = <<>> THEN st
  ELSE UnparkNewest(
         Reschedule([st EXCEPT !.parked = SubSeq(@, 1, Len(@) - 1)],
                    st.parked[Len(st.parked)], Value(0)), count - 1)

\* ParkingLot.unpark(count=count): `for _ in range(min(count, len(parked)))`
\* pops the first item and reschedules its task; ALL is the lot's length
RECURSIVE Unpark(_, _)
Unpark(st, count) ==
  IF count = 0 \/ st.parked = <<>> THEN st
  ELSE Unpark(Reschedule([st EXCEPT !.parked = Tail(@)], Head(st.parked),
                         Value(0)), count - 1)

\* await lot.park(abort_func=...)
UPark(t, abort_func) ==
  /\ InBody(t)
  /\ Step(t, Park(St, t, abort_func))

\* lot.unpark(count=count)
UUnpark(t, count) ==
  /\ InBody(t)
  /\ Step(t, Unpark(St, count))

\* lot.unpark(): `if count is ParkingLot.ALL: count = len(self._parked)`
UUnparkAll(t) ==
  /\ InBody(t)
  /\ Step(t, Unpark(St, Len(parked)))

\* raise
URaise(t) ==
  /\ InBody(t)
  /\ Step(t, [St EXCEPT !.task[t].exc = Bare(UserExc(t))])

\* except: the exception in flight is handled by user code
UCatch(t) ==
  /\ Running(t) /\ task[t].pc = "run" /\ task[t].exc # EmptyBag
  /\ Step(t, [St EXCEPT !.task[t].exc = EmptyBag])

\* the coroutine returns
UReturn(t) ==
  /\ InBody(t) /\ task[t].frames = <<>>
  /\ Step(t, Finish([St EXCEPT !.task[t].rv = t], t))

\* the exception in flight leaves the coroutine
UPropagate(t) ==
  /\ Running(t) /\ task[t].pc = "run" /\ task[t].exc # EmptyBag
  /\ task[t].frames = <<>>
  /\ Step(t, Finish(St, t))

\* reschedule(u, Value(None)) for a task u blocked in yield_indefinitely
UReschedule(t, u) ==
  /\ InBody(t) /\ u \in UserTasks /\ u # t
  /\ TopIs(u, "sleep") /\ task[u].next_send.k = "None"
  /\ Step(t, Reschedule(St, u, Value(0)))

\* ------------------------------------------------------------- specification
\* what run() itself does: the loop, the init task, call_soon_task with an
\* empty queue, and the nursery cleanup
RunnerNext ==
  \/ RunImplStart
  \/ LoopIteration
  \/ LoopExit
  \/ \E t \in Tasks : StepBegin(t)
  \/ InitFirstStep
  \/ InitFor
  \/ InitReturn
  \/ \E t \in Tasks : LeaveBody(t)
  \/ \E t \in Tasks : CleanUpResume(t)
  \/ CsPass
  \/ CsSnapshot
  \/ CsWait
  \/ CsShutdown
  \/ CsReturn

\* foreign threads that call call_soon_thread_and_signal_safe, and the
\* callbacks they queue
ThreadNext ==
  \/ \E j \in Jobs : ThreadEnter(j)
  \/ \E j \in Jobs : ThreadAppend(j)
  \/ \E j \in Jobs : ThreadWakeup(j)
  \/ CsRunCb

\* Scheduling: the main task spawns children; tasks yield, block with an abort
\* callback that succeeds or fails, reschedule each other and cancel the
\* nursery
Next ==
  \/ RunnerNext
  \/ UOpenNursery(MainTask)
  \/ USpawn(MainTask, MainTask)
  \/ \E t \in UserTasks : UYieldBrieflyNoCancel(t)
  \/ \E t \in Children : UYieldBriefly(t)
  \/ \E t \in Children : USleep(t, "SUCCEEDED")
  \/ \E t \in Children : USleep(t, "FAILED")
  \/ \E t \in UserTasks, u \in Children : UReschedule(t, u)
  \/ \E s \in Scopes : UCancel(MainTask, s)
  \/ \E t \in UserTasks : UReturn(t)
  \/ \E t \in UserTasks : UPropagate(t)

Spec == Init /\ [][Next]_vars

\* Deadlines: the main task opens a scope with a deadline and a nursery with
\* one child in it, moves the deadlines and cancels; the clock moves
ScopeNext ==
  \/ RunnerNext
  \/ Tick
  \/ \E d \in Deadlines \ {NegInf} : UOpenScope(MainTask, d, FALSE)
  \/ UCloseScope(MainTask)
  \/ \E s \in Scopes, d \in Deadlines \ {NegInf} : USetDeadline(MainTask, s, d)
  \/ \E s \in Scopes : UCancel(MainTask, s)
  \/ UOpenNursery(MainTask)
  \/ USpawn(MainTask, MainTask) /\ ~task[MainTask + 1].born
  \/ UYieldBriefly(MainTask)
  \/ \E t \in Children : USleep(t, "SUCCEEDED")
  \/ \E t \in UserTasks : UReturn(t)
  \/ \E t \in UserTasks : UPropagate(t)

SpecScope == Init /\ [][ScopeNext]_vars

\* Cancellation: the main task opens a scope, shielded or not, and a nursery
\* with one child in it; scopes are cancelled and shields set and cleared
\* while the tasks go through checkpoints and handle what they are resumed with
CancelNext ==
  \/ RunnerNext
  \/ \E b \in BOOLEAN : UOpenScope(MainTask, Inf, b)
  \/ UCloseScope(MainTask)
  \/ \E s \in Scopes, b \in BOOLEAN : USetShield(MainTask, s, b)
  \/ \E s \in Scopes : UCancel(MainTask, s)
  \/ UOpenNursery(MainTask)
  \/ USpawn(MainTask, MainTask) /\ ~task[MainTask + 1].born
  \/ UYieldBriefly(MainTask)
  \/ \E t \in Children : USleep(t, "SUCCEEDED")
  \/ \E t \in UserTasks : UCatch(t)
  \/ \E t \in UserTasks : UReturn(t)
  \/ \E t \in UserTasks : UPropagate(t)

SpecCancel == Init /\ [][CancelNext]_vars

\* Aborts: the same, with a child whose abort callback may refuse, and which
\* the main task may reschedule
AbortNext ==
  \/ CancelNext
  \/ \E t \in Children : USleep(t, "FAILED")
  \/ \E u \in Children : UReschedule(MainTask, u)

SpecAbort == Init /\ [][AbortNext]_vars

\* Nurseries: the main task opens a nursery, possibly inside a cancel scope,
\* and spawns children that sleep, fail or return
NurseryNext ==
  \/ RunnerNext
  \/ UOpenScope(MainTask, Inf, FALSE)
  \/ UCloseScope(MainTask)
  \/ UOpenNursery(MainTask)
  \/ USpawn(MainTask, MainTask)
  \/ UYieldBriefly(MainTask)
  \/ \E t \in UserTasks, s \in Scopes : UCancel(t, s)
  \/ \E t \in UserTasks : USleep(t, "SUCCEEDED")
  \/ \E t \in UserTasks : URaise(t)
  \/ \E t \in UserTasks : UReturn(t)
  \/ \E t \in UserTasks : UPropagate(t)

SpecNursery == Init /\ [][NurseryNext]_vars

\* Yields that are not checkpoints: the main task and a child in its nursery
\* yield with yield_briefly_no_cancel and with yield_briefly, while the main
\* task cancels the nursery and SIGINT arrives
NoCancelNext ==
  \/ RunnerNext
  \/ DeliverKi
  \/ CsRunCb
  \/ UOpenNursery(MainTask)
  \/ USpawn(MainTask, MainTask) /\ ~task[MainTask + 1].born
  \/ \E t, n \in UserTasks : USpawnClosed(t, n)
  \/ \E s \in Scopes : UCancel(MainTask, s)
  \/ \E t \in UserTasks : UYieldBrieflyNoCancel(t)
  \/ \E t \in UserTasks : UYieldBriefly(t)
  \/ \E t \in UserTasks : UCatch(t)
  \/ \E t \in UserTasks : UReturn(t)
  \/ \E t \in UserTasks : UPropagate(t)

SpecNoCancel == Init /\ [][NoCancelNext]_vars

\* Nested deadlines: the main task opens scopes inside each other, shielded
\* or not and with deadlines that lie ahead, and blocks inside them while the
\* clock moves
NestedNext ==
  \/ RunnerNext
  \/ TickAhead
  \/ \E d \in 1..(MaxTime + MaxAhead), b \in BOOLEAN :
       now < d /\ UOpenNested(MainTask, d, b)
  \/ UCloseScope(MainTask)
  \/ USleep(MainTask, "SUCCEEDED")
  \/ UReturn(MainTask)

SpecNested == Init /\ [][NestedNext]_vars

\* Interrupts: the main task opens a nursery, possibly inside a cancel scope
\* that it cancels, and spawns children that sleep, fail or return, while
\* SIGINT arrives
InterruptNext ==
  \/ RunnerNext
  \/ DeliverKi
  \/ CsRunCb
  \/ UOpenScope(MainTask, Inf, FALSE)
  \/ UCloseScope(MainTask)
  \/ \E s \in Scopes : UCancel(MainTask, s)
  \/ UOpenNursery(MainTask)
  \/ USpawn(MainTask, MainTask)
  \/ \E t \in Children : USleep(t, "SUCCEEDED")
  \/ \E t \in UserTasks : URaise(t)
  \/ \E t \in UserTasks : UReturn(t)
  \/ \E t \in UserTasks : UPropagate(t)

SpecInterrupt == Init /\ [][InterruptNext]_vars

\* The call_soon queue: foreign threads enqueue while the main task runs
\* Quiescing: the main task and its children wait for the run loop to be
\* idle, yield briefly and sleep, in scopes with deadlines that the clock
\* reaches or that lie more than a day ahead, while the main task cancels
IdleNext ==
  \/ RunnerNext
  \/ TickAhead
  \/ \E d \in {1, MaxTime + MaxAhead} : UOpenScope(MainTask, d, FALSE)
  \/ UCloseScope(MainTask)
  \/ UOpenNursery(MainTask)
  \/ USpawn(MainTask, MainTask) /\ ~task[MainTask + 1].born
  \/ \E t \in UserTasks : UWaitIdle(t)
  \/ UYieldBriefly(MainTask)
  \/ USleep(MainTask, "SUCCEEDED")
  \/ \E s \in Scopes : UCancel(MainTask, s)
  \/ \E t \in UserTasks : UReturn(t)
  \/ \E t \in UserTasks : UPropagate(t)

SpecIdle == Init /\ [][IdleNext]_vars

\* Pending cancellations: the main task opens and leaves scopes with
\* deadlines, cancels them, and yields with yield_briefly_no_cancel and with
\* yield_briefly, while the clock moves
PendingNext ==
  \/ RunnerNext
  \/ Tick
  \/ \E d \in Deadlines \ {NegInf} : UOpenScope(MainTask, d, FALSE)
  \/ UCloseScope(MainTask)
  \/ \E s \in Scopes : UCancel(MainTask, s)
  \/ UYieldBrieflyNoCancel(MainTask)
  \/ UYieldBriefly(MainTask)
  \/ UReturn(MainTask)

SpecPending == Init /\ [][PendingNext]_vars

CallSoonNext ==
  \/ RunnerNext
  \/ ThreadNext
  \/ UYieldBriefly(MainTask)
  \/ UReturn(MainTask)

SpecCallSoon == Init /\ [][CallSoonNext]_vars

\* Hooks: instruments are added and removed between the announcements of
\* hooks and by the methods the announcements call, which may also announce
\* a hook themselves; no method raises
HookNext ==
  \/ \E n \in SeqToSet(HookNames) : HookCall(n)
  \/ HookIterEnds
  \/ HookMethodReturns
  \/ \E j \in Instruments : HookMethodAdds(j)
  \/ \E j \in Instruments : hk.reg[j].present /\ HookMethodRemoves(j)
  \/ \E n \in SeqToSet(HookNames) : HookMethodCalls(n)
  \/ \E i \in Instruments : HookAdd(i)
  \/ \E i \in Instruments : HookRemove(i)

SpecHook == Init /\ [][HookNext]_vars

\* Hooks whose methods may also raise, or remove an instrument that is not
\* active
HookRaiseNext ==
  \/ \E n \in SeqToSet(HookNames) : HookCall(n)
  \/ HookIterEnds
  \/ HookMethodReturns
  \/ \E j \in Instruments : HookMethodAdds(j)
  \/ \E j \in Instruments : HookMethodRemoves(j)
  \/ HookMethodRaises
  \/ \E n \in SeqToSet(HookNames) : HookMethodCalls(n)
  \/ \E i \in Instruments : HookAdd(i)
  \/ \E i \in Instruments : HookRemove(i)

SpecHookRaise == Init /\ [][HookRaiseNext]_vars

\* Signals: _add is called for signals at any time, before and after the
\* block of open_signal_receiver is left, while a task iterates the receiver
\* and is cancelled
SigNext ==
  \/ \E s \in SigNums, R \in SUBSET SigNums : SigAdd(s, R)
  \/ SigAnext
  \/ SigAnextResumes
  \/ SigAnextCancelled
  \/ \E R \in SUBSET SigNums : SigExit(R)

SpecSignals == Init /\ [][SigNext]_vars

\* Shutdown: foreign threads call call_soon_thread_and_signal_safe with and
\* without idempotent=True, and SIGINT arrives between task steps and inside
\* the steps of call_soon_task, while the main task yields and returns and
\* call_soon_task is cancelled
OnceNext ==
  \/ \E c \in Callers, checkpoint \in BOOLEAN : OnceEnsure(c, checkpoint)
  \/ \E c \in Callers : OnceAfnReturns(c)
  \/ \E c \in Callers : OnceAfnRaises(c)
  \/ \E c \in Callers : OnceAfnCancelled(c)
  \/ \E c \in Callers : OnceWaitReturns(c)
  \/ \E c \in Callers : OnceWaitCancelled(c)

\* a task whose Event.wait can return is scheduled and stepped; nothing
\* obliges a task to call ensure, the function to end, or a cancellation to
\* arrive
SpecOnce ==
  /\ Init /\ [][OnceNext]_vars
  /\ \A c \in Callers : WF_vars(OnceWaitReturns(c))

ShutdownNext ==
  \/ RunnerNext
  \/ \E j \in Jobs : ThreadEnter(j)
  \/ ThreadAppend(1)
  \/ \E j \in Jobs \ {1}, k \in Keys : ThreadPut(j, k)
  \/ \E j \in Jobs : ThreadWakeup(j)
  \/ CsRunCb
  \/ \E k \in Keys : CsRunIdempotent(k)
  \/ DeliverKi
  \/ DeliverKiDraining
  \/ UYieldBriefly(MainTask)
  \/ UReturn(MainTask)

SpecShutdown == Init /\ [][ShutdownNext]_vars

\* Callbacks that queue themselves again: the main task calls
\* call_soon_thread_and_signal_safe(naughty_cb) and goes on yielding, and each
\* callback, when run_all_bounded runs it, calls it again with or without
\* idempotent=True.  The loop thread never stops before run_impl returns:
\* that is weak fairness of NaughtyNext, written out with loop # "closed" for
\* ENABLED <<NaughtyNext>>_vars (some step is possible in every state but the
\* last).
NaughtyNext ==
  \/ RunnerNext
  \/ UCallSoon(MainTask)
  \/ \E i \in BOOLEAN, k \in Keys : CsRunCbNaughty(i, k)
  \/ \E i \in BOOLEAN, k \in Keys : CsRunIdempotentNaughty(k, i)
  \/ UYieldBriefly(MainTask)
  \/ UReturn(MainTask)

SpecNaughty ==
  /\ Init /\ [][NaughtyNext]_vars
  /\ ([]<>(loop = "closed") \/ []<><<NaughtyNext>>_vars)

\* The run queue: the main task spawns a child into its nursery and cancels;
\* both sleep, wait for the loop to be idle and yield without a checkpoint
\* while SIGINT arrives
QueueNext ==
  \/ RunnerNext
  \/ DeliverKi
  \/ CsRunCb
  \/ UOpenNursery(MainTask)
  \/ USpawn(MainTask, MainTask) /\ ~task[MainTask + 1].born
  \/ \E s \in Scopes : UCancel(MainTask, s)
  \/ \E t \in UserTasks : USleep(t, "SUCCEEDED")
  \/ \E t \in UserTasks : UWaitIdle(t)
  \/ \E t \in UserTasks : UYieldBrieflyNoCancel(t)
  \/ \E t \in UserTasks : UReturn(t)
  \/ \E t \in UserTasks : UPropagate(t)

SpecQueue == Init /\ [][QueueNext]_vars

\* Monitors: the main task spawns children into its nursery, adds queues to
\* their monitors and discards them, before and after the children return or
\* raise, and empties the queues
MonitorNext ==
  \/ RunnerNext
  \/ UOpenNursery(MainTask)
  \/ USpawn(MainTask, MainTask)
  \/ \E u \in Children, q \in Queues : UAddMonitor(MainTask, u, q)
  \/ \E u \in Children, q \in Queues : UDiscardMonitor(MainTask, u, q)
  \/ \E q \in Queues : UGetAllNowait(MainTask, q)
  \/ UCatch(MainTask)
  \/ UYieldBrieflyNoCancel(MainTask)
  \/ \E t \in Children : URaise(t)
  \/ \E t \in UserTasks : UReturn(t)
  \/ \E t \in UserTasks : UPropagate(t)

SpecMonitor == Init /\ [][MonitorNext]_vars

\* The parking lot: the children park in one lot, with either abort_func; the
\* main task unparks some or all of them and cancels its nursery
LotNext ==
  \/ RunnerNext
  \/ UOpenNursery(MainTask)
  \/ USpawn(MainTask, MainTask)
  \/ \E t \in Children, af \in {"lot", "lot_failed"} : UPark(t, af)
  \/ \E count \in 0..NTasks : UUnpark(MainTask, count)
  \/ UUnparkAll(MainTask)
  \/ \E s \in Scopes : UCancel(MainTask, s)
  \/ UYieldBrieflyNoCancel(MainTask)
  \/ \E t \in UserTasks : UReturn(t)
  \/ \E t \in UserTasks : UPropagate(t)

SpecLot == Init /\ [][LotNext]_vars

\* Crashing callbacks: the callback a foreign thread queues may return or
\* raise, an exception of its own or KeyboardInterrupt, while the main task
\* yields, sleeps, returns, and lets a Cancelled it receives propagate
CrashNext ==
  \/ RunnerNext
  \/ ThreadEnter(1)
  \/ ThreadAppend(1)
  \/ ThreadWakeup(1)
  \/ CsRunCb
  \/ \E exc \in {CallbackExc(1), KeyboardInterrupt} : CsRunCbRaising(exc)
  \/ \E t \in Children : KillEverything(t)
  \/ UYieldBriefly(MainTask)
  \/ USleep(MainTask, "SUCCEEDED")
  \/ UReturn(MainTask)
  \/ UPropagate(MainTask)

SpecCrash == Init /\ [][CrashNext]_vars

\* Idempotent calls: foreign threads call call_soon_thread_and_signal_safe
\* with idempotent=True while the main task yields and returns
IdempotentNext ==
  \/ RunnerNext
  \/ \E j \in Jobs : ThreadEnter(j)
  \/ \E j \in Jobs, k \in Keys : ThreadPut(j, k)
  \/ \E j \in Jobs : ThreadWakeup(j)
  \/ \E k \in Keys : CsRunIdempotent(k)
  \/ UYieldBriefly(MainTask)
  \/ UReturn(MainTask)

SpecIdempotent == Init /\ [][IdempotentNext]_vars

\* Instruments: run(fn, instruments=[...]) with a list of at most
\* MaxInstruments objects, each of which may have one method that raises; the
\* main task yields, and returns or raises
InitInstrumented ==
  /\ InitRunner
  /\ \E n \in 0..MaxInstruments :
       \E l \in [1..n -> Instruments], r \in [Instruments -> Hooks \cup {"none"}] :
         instruments = [NoInstruments EXCEPT !.list = l, !.raises = r,
                                            !.given = l]

InstrumentNext ==
  \/ RunnerNext
  \/ UYieldBrieflyNoCancel(MainTask)
  \/ UReturn(MainTask)
  \/ URaise(MainTask)
  \/ UPropagate(MainTask)

SpecInstrument == InitInstrumented /\ [][InstrumentNext]_vars

\* ------------------------------------------------------------- properties
InRunQueue(t) == t \in SeqToSet(runq) \cup batch
SuspendedWithAbort(t) == task[t].abort_func # "None"
IsFinished(t) == task[t].result.k # "None"
Born == {t \in Tasks : task[t].born}
StatesOf(t) ==
  (IF InRunQueue(t) THEN 1 ELSE 0) + (IF SuspendedWithAbort(t) THEN 1 ELSE 0)
  + (IF IsFinished(t) THEN 1 ELSE 0)

\* the task is blocked in a yield_indefinitely whose abort callback has been
\* called, has returned FAILED, and has been dropped
AbortFailed(t) ==
  /\ TopIs(t, "sleep") /\ Top(St, t).af = "FAILED"
  /\ task[t].abort_func = "None" /\ ~InRunQueue(t) /\ ~IsFinished(t)

\* C1 as stated: every task that is not being stepped is in exactly one of:
\* the run queue (or the batch taken from it), suspended with an abort
\* callback, finished
C1_Original == \A t \in Born : t # cur => StatesOf(t) = 1

\* C1: every task is in at most one of: the run queue (or the batch taken from
\* it), suspended with an abort callback, finished; a task that is not being
\* stepped is in exactly one of them, or it is blocked after its abort
\* callback was called and returned FAILED
C1_TaskStates ==
  \A t \in Born :
    /\ StatesOf(t) <= 1
    /\ t # cur => StatesOf(t) = 1 \/ AbortFailed(t)

C1_Witness ==
  \E t \in Born : cur = 0 /\ AbortFailed(t) /\ StatesOf(t) = 0
                  /\ \E s \in Scopes : scope[s].called /\ t \in scope[s].tasks

\* C2: runner.deadlines holds the key (s.deadline, id(s)) exactly when s has a
\* task bound to it, s.deadline is below +inf and s is not cancelled, and it
\* holds no other key
C2_DeadlineIndex ==
  /\ deadlines \subseteq Deadlines \X Scopes
  /\ \A s \in Scopes, d \in Deadlines :
       <<d, s>> \in deadlines <=>
         /\ scope[s].tasks # {}
         /\ scope[s].deadline = d /\ d < Inf
         /\ ~scope[s].called

\* a scope with a finite deadline that a spawned child has inherited
C2_Witness ==
  \E s \in Scopes, d \in 0..MaxTime :
    /\ <<d, s>> \in deadlines
    /\ MainTask \in scope[s].tasks /\ scope[s].tasks \cap Children # {}
    /\ \E s2 \in Scopes : s2 # s /\ scope[s2].called /\ scope[s2].deadline < Inf
                         /\ scope[s2].tasks # {}

\* the tasks ever spawned into the nursery of parent n
SpawnedInto(n) == {c \in Born : task[c].nursery = n}

\* C3: once control has left an open_nursery block the nursery has no
\* children and no zombies, and every task spawned into it has finished
C3_NoChildEscapes ==
  \A n \in Tasks :
    nursery[n].closed =>
      /\ nursery[n].children = {} /\ nursery[n].zombies = {}
      /\ \A c \in SpawnedInto(n) : IsFinished(c)

\* the main task has left its nursery, with two children, carrying the
\* Cancelled of the enclosing scope
C3_Witness ==
  /\ nursery[MainTask].closed /\ cur = MainTask
  /\ Cardinality(SpawnedInto(MainTask)) = MaxChildren
  /\ TopIs(MainTask, "scope")
  /\ BagIn(CancelledExc(Top(St, MainTask).s), task[MainTask].exc)

\* the task is, in the state, suspended at a checkpoint
AtCheckpoint(t) ==
  /\ task[t].frames # <<>>
  /\ \/ Top(St, t).k \in {"brief", "park", "woken"}
     \/ Top(St, t).k = "sleep" /\ Top(St, t).af = "SUCCEEDED"

\* the positions on the cancel stack of the cancelled scopes with no shielded
\* scope further inward
Unshielded(t) ==
  LET stack == task[t].cancel_stack
  IN {i \in DOMAIN stack :
        /\ scope[stack[i]].called
        /\ \A k \in DOMAIN stack : k > i => ~scope[stack[k]].shield}

\* the task is scheduled to be resumed with the Cancelled of a cancelled scope
\* at or outside every scope of Unshielded
ResumedCancelled(t) ==
  LET stack == task[t].cancel_stack
  IN /\ t \in SeqToSet(runq)
     /\ \E j \in DOMAIN stack :
          /\ scope[stack[j]].called
          /\ \A i \in Unshielded(t) : j <= i
          /\ task[t].next_send = Error(Bare(CancelledExc(stack[j])))

\* C4: a step in which a task executes a checkpoint while a cancelled scope is
\* on its cancel stack with no shielded scope further inward ends with the
\* task scheduled to be resumed with Cancelled, of that scope or of a
\* cancelled scope outside it
C4_LevelTriggered ==
  [][\A t \in Tasks :
       (cur = t /\ cur' = 0 /\ AtCheckpoint(t)' /\ Unshielded(t)' # {})
         => ResumedCancelled(t)']_vars

\* the main task has been resumed twice with the Cancelled of the scope it
\* is in
C4_Witness ==
  \E i \in DOMAIN task[MainTask].frames :
    /\ task[MainTask].frames[i].k = "scope"
    /\ task[MainTask].frames[i].n = 2
    /\ task[MainTask].exc = Bare(CancelledExc(task[MainTask].frames[i].s))

\* C5: only tasks of the batch snapshot are stepped, each at most once and,
\* when the batch is over, exactly once; a task that is on the run queue is
\* not stepped, and all tasks on the run queue are in the next snapshot
C5_BatchScheduling ==
  /\ [](\A t \in Tasks :
          /\ hist.steps[t] <= 1
          /\ hist.steps[t] = 1 => t \in hist.snap
          /\ t \in hist.snap => (hist.steps[t] = 0 <=> t \in batch)
          /\ t \in batch => t \in hist.snap)
  /\ [][/\ (cur = 0 /\ cur' # 0) => cur' \notin SeqToSet(runq)
        /\ hist'.snap # hist.snap => SeqToSet(runq) \subseteq hist'.snap
        /\ (batch = {} /\ cur = 0 /\ runq # <<>> /\ runq' = <<>>)
             => SeqToSet(runq) \subseteq batch']_vars

\* a task that yielded in this batch waits on the run queue while another
\* task of the snapshot is still to be stepped
C5_Witness ==
  \E t \in UserTasks, u \in UserTasks :
    /\ cur = 0 /\ hist.steps[t] = 1 /\ t \in SeqToSet(runq)
    /\ u \in batch /\ task[u].pc # "new"

\* C6: a job is run at most once, and only a job that was queued; when run()
\* has returned without a failed assertion, every job whose call returned has
\* run exactly once
C6_ExactlyOnce ==
  \A j \in Jobs :
    /\ job[j].runs <= 1
    /\ job[j].runs = 1 => job[j].st \in {"appended", "queued"}
    /\ (loop = "closed" /\ fault = "none" /\ job[j].st = "queued")
         => job[j].runs = 1

\* a call that was made while the system nursery was being cancelled has
\* returned, and run() has returned
C6_Witness ==
  \E j \in Jobs : loop = "closed" /\ job[j].st = "queued"
                  /\ job[j].at = "cancelling" /\ job[j].runs = 1

C8_NeverEscapes ==
  /\ [](\A t \in Tasks : \A c \in BagToSet(task[t].exc) :
          IsCancelled(c) => c.s \in SeqToSet(task[t].cancel_stack))
  /\ [][\A t \in UserTasks :
          /\ (cur = t /\ TopIs(t, "scope")
                /\ Len(task'[t].frames) < Len(task[t].frames))
               => LET s == Top(St, t).s
                      own == CancelledExc(s)
                  IN /\ \A c \in BagToSet(task[t].exc) \cup BagToSet(task'[t].exc) :
                          CopiesIn(c, task'[t].exc) =
                            IF c = own THEN 0 ELSE CopiesIn(c, task[t].exc)
                     /\ scope'[s].caught <=> BagIn(own, task[t].exc)
          /\ (nursery[t].open /\ ~nursery'[t].open)
               => ~BagIn(CancelledExc(nursery[t].scope), task'[t].exc)]_vars

\* the scope around the main task's nursery has caught its own Cancelled out
\* of the aggregate that left the nursery, and the error of a child goes on
C8_Witness ==
  /\ cur = MainTask /\ task[MainTask].frames = <<>>
  /\ \E c \in Children : BagIn(UserExc(c), task[MainTask].exc)
  /\ nursery[MainTask].closed
  /\ \E s \in SeqToSet(nursery[MainTask].cancel_stack) :
       /\ s # nursery[MainTask].scope
       /\ ~scope[s].live /\ scope[s].caught

\* the errors of the finished tasks of S, in one bag
RECURSIVE ErrorsOf(_)
ErrorsOf(S) ==
  IF S = {} THEN EmptyBag
  ELSE LET c == CHOOSE x \in S : TRUE
       IN (IF task[c].result.k = "Error" THEN task[c].result.e ELSE EmptyBag)
          (+) ErrorsOf(S \ {c})

\* what the parent t has seen before it leaves its nursery block: the
\* exception that left the body, and what it was resumed with in the cleanup
BodyException(t) ==
  IF TopIs(t, "cleanup") THEN Top(St, t).b ELSE task[t].exc
ReceivedWaiting(t) ==
  IF TopIs(t, "cleanup") THEN Top(St, t).r ELSE EmptyBag

\* C9: the exception that leaves a nursery block is made of the errors of the
\* children the body has not reaped itself, the exception that left the body
\* and the Cancelled and KeyboardInterrupt the parent was resumed with while
\* it waited, without the Cancelled of the nursery's own scope
C9_Aggregation ==
  [][\A t \in Tasks :
       (nursery[t].open /\ ~nursery'[t].open) =>
         LET all == ErrorsOf(SpawnedInto(t) \ nursery[t].reaped)
                    (+) BodyException(t) (+) ReceivedWaiting(t)
             own == CancelledExc(nursery[t].scope)
         IN task'[t].exc = Without(all, own)]_vars

\* the main task has left its nursery block with an aggregate of the errors
\* of two children, the KeyboardInterrupt it was resumed with while it waited
\* and the Cancelled of the scope around the nursery
C9_Witness ==
  /\ nursery[MainTask].closed /\ cur = MainTask
  /\ TopIs(MainTask, "scope")
  /\ BagIn(CancelledExc(Top(St, MainTask).s), task[MainTask].exc)
  /\ BagIn(KeyboardInterrupt, task[MainTask].exc)
  /\ Cardinality({c \in Children : BagIn(UserExc(c), task[MainTask].exc)}) = 2

\* the parent t is blocked inside Nursery._clean_up
BlockedInCleanUp(t) ==
  /\ nursery[t].open /\ cur # t /\ ~InRunQueue(t)
  /\ \E i \in DOMAIN task[t].frames : task[t].frames[i].k = "cleanup"

\* a failure of the nursery of parent t: a child that finished with an error
\* and that the body has not reaped
ChildFailed(t) ==
  \E c \in SpawnedInto(t) \ nursery[t].reaped : task[c].result.k = "Error"

C11_Original ==
  /\ instruments.raised \cap SeqToSet(instruments.list) = {}
  /\ instruments.again = {}
  /\ SeqToSet(instruments.list) \subseteq instruments.last
       \/ loop = "start"
  /\ loop = "closed" =>
       /\ fault = "none"
       /\ task[InitTask].result = task[MainTask].result

\* the same, for a list without repeated members
C11_Distinct ==
  (\A i, j \in DOMAIN instruments.given :
     instruments.given[i] = instruments.given[j] => i = j
   ) => C11_Original

\* run() has ended; an instrument listed twice raised, and was called again
C11_Witness ==
  /\ loop = "closed"
  /\ instruments.again # {} /\ instruments.list = <<>>

\* C12: the fn of a key has run once for every time the key was stored while
\* it was not in the idempotent queue, less one while the key is in the queue:
\* the calls that store a key between two removals of it by the drain cause
\* one execution, a call after a removal causes one more; when run() has
\* returned without a failed assertion every such group of calls has had its
\* execution
C12_Idempotent ==
  \A k \in Keys :
    /\ csidem.groups[k] = csidem.runs[k] + (IF k \in csidem.q THEN 1 ELSE 0)
    /\ csidem.puts[k] > 0 => csidem.groups[k] > 0
    /\ (loop = "closed" /\ fault = "none") => csidem.runs[k] = csidem.groups[k]

\* two calls have stored the same key before the drain removed it, and its fn
\* has run once when run() has returned
C12_Witness ==
  \E k \in Keys :
    /\ loop = "closed" /\ csidem.puts[k] = 2 /\ csidem.runs[k] = 1
    /\ \A j \in Jobs : job[j].st = "queued" /\ job[j].key = k

\* two calls have stored the same key, the second after the drain removed it,
\* and its fn has run twice
C12_Further ==
  \E k \in Keys : csidem.puts[k] = 2 /\ csidem.runs[k] = 2

\* C13: of two callbacks appended to the ordered queue, the one appended
\* first runs first: when the later one has run, the earlier one has run
\* before it
C13_Ordered ==
  \A i, j \in Jobs :
    (job[i].seq > 0 /\ job[i].seq < job[j].seq /\ job[j].runs > 0)
      => job[i].runs > 0 /\ job[i].ran < job[j].ran

\* two callbacks appended by different calls have run in different passes of
\* the drain: the second was appended after the first had run
C13_Witness ==
  \E i, j \in Jobs :
    /\ job[i].seq = 1 /\ job[j].seq = 2 /\ job[i].ran = 1 /\ job[j].ran = 2
    /\ job[j].after = 1

\* how often the abort callback of the blocking call the task is in has been
\* called
AbortCalls(t) ==
  IF task[t].frames # <<>> /\ Top(St, t).k \in SuspensionKinds
  THEN Top(St, t).n ELSE 0

\* C14: the abort callback of a blocking call is called at most once; the
\* step that calls it clears it, and leaves the task rescheduled with the
\* cancellation when it returned SUCCEEDED and not rescheduled when it returned
\* FAILED; a task whose abort failed is put on the run queue only by a running
\* task's reschedule(), with the value given there; and a task whose abort
\* has failed is resumed with Cancelled at its next checkpoint under a
\* cancelled scope
C14_AbortProtocol ==
  /\ [](\A t \in Tasks : \A i \in DOMAIN task[t].frames :
          task[t].frames[i].k \in SuspensionKinds => task[t].frames[i].n <= 1)
  /\ [][\A t \in Tasks :
          /\ (AbortCalls(t)' = 1 /\ (AbortCalls(t) = 0 \/ cur = t)) =>
               /\ task'[t].abort_func = "None"
               /\ IF Top(St, t)'.af = "FAILED"
                  THEN ~InRunQueue(t)' /\ task'[t].next_send = NoneOut
                  ELSE /\ InRunQueue(t)'
                       /\ task'[t].next_send.k = "Error"
                       /\ \E c \in BagToSet(task'[t].next_send.e) :
                            IsCancelled(c) /\ scope'[c.s].called
          /\ (AbortFailed(t) /\ InRunQueue(t)') =>
               /\ cur \in UserTasks \ {t}
               /\ task'[t].next_send = Value(0)
          /\ (task[t].fa /\ cur = t /\ cur' = 0 /\ AtCheckpoint(t)'
                /\ Unshielded(t)' # {}) => ResumedCancelled(t)']_vars

\* a child whose abort has failed has been rescheduled by the main task and
\* then resumed with Cancelled from its next blocking call
C14_Witness ==
  \E t \in Children :
    /\ task[t].fa /\ cur = t /\ task[t].frames = <<>>
    /\ \E c \in BagToSet(task[t].exc) : IsCancelled(c)

\* C15: yield_briefly_no_cancel is not a checkpoint. A task suspended in it is
\* on the run queue with Value(None) to be sent, whatever scopes are cancelled
\* and whether or not a KeyboardInterrupt is pending; it is in the batch of
\* the next iteration and is resumed from it with no exception; a pending
\* cancellation or KeyboardInterrupt reaches the task at the next
\* yield_briefly it executes
C15_NotACheckpoint ==
  /\ [](\A t \in UserTasks :
          TopIs(t, "nocancel") =>
            /\ InRunQueue(t) /\ task[t].next_send = Value(0)
            /\ task[t].abort_func = "None")
  /\ [][\A t \in UserTasks :
          /\ (TopIs(t, "nocancel") /\ t \in SeqToSet(runq)
                /\ t \notin SeqToSet(runq')) => t \in batch'
          /\ (TopIs(t, "nocancel") /\ cur' = t) =>
               /\ task'[t].exc = EmptyBag
               /\ task'[t].frames = SubSeq(task[t].frames, 1,
                                            Len(task[t].frames) - 1)
          /\ (cur = t /\ cur' = 0 /\ TopIs(t, "brief")'
                /\ Unshielded(t)' # {}) => ResumedCancelled(t)'
          /\ (cur = t /\ cur' = 0 /\ TopIs(t, "brief")' /\ t = MainTask
                /\ ki.pending /\ Unshielded(t)' = {}) =>
               /\ t \in SeqToSet(runq') /\ ~ki'.pending
               /\ task'[t].next_send = Error(Bare(KeyboardInterrupt))]_vars

\* the main task is suspended in yield_briefly_no_cancel inside the nursery
\* it has cancelled, with a KeyboardInterrupt pending, and is in the batch that
\* is being run
C15_Witness ==
  /\ TopIs(MainTask, "nocancel") /\ MainTask \in batch
  /\ Unshielded(MainTask) # {} /\ ki.pending
  /\ task[MainTask].next_send = Value(0)

\* C16: a task blocked in yield_indefinitely stays as it is, off the run
\* queue, through every step after which no cancelled scope of its cancel
\* stack is without a shielded scope further inward; and the step that
\* clears the shield of a scope reschedules every task of that scope that is
\* blocked with an abort callback that succeeds and now has such a scope,
\* with the Cancelled of the outermost of them
C16_Shield ==
  [][\A t \in UserTasks :
       /\ (TopIs(t, "sleep") /\ task[t].abort_func # "None"
             /\ Unshielded(t)' = {}) =>
            task'[t] = task[t] /\ ~InRunQueue(t)'
       /\ \A s \in Scopes :
            (scope[s].shield /\ ~scope'[s].shield /\ t \in scope[s].tasks
               /\ TopIs(t, "sleep") /\ task[t].abort_func = "SUCCEEDED"
               /\ Unshielded(t)' # {}) => ResumedCancelled(t)']_vars

\* a child blocked in the nursery has been rescheduled, by the clearing of the
\* shield of the nursery's scope, with the Cancelled of a scope outside it
C16_Witness ==
  \E t \in Children : \E i, j \in DOMAIN task[t].cancel_stack :
    /\ i < j /\ t \in scope[task[t].cancel_stack[j]].woke
    /\ ~scope[task[t].cancel_stack[j]].called
    /\ TopIs(t, "sleep") /\ t \in SeqToSet(runq)
    /\ task[t].next_send = Error(Bare(CancelledExc(task[t].cancel_stack[i])))

\* the scope has tasks and a deadline that the clock has reached
Due(s) == ~scope[s].called /\ scope[s].tasks # {} /\ scope[s].deadline <= now

\* C17: an iteration of the loop that finds a scope with tasks whose deadline
\* the clock has reached leaves it cancelled and out of the deadline index,
\* and every task of the scope that is blocked with an abort callback that
\* succeeds is in the batch, to be resumed with Cancelled: that of this scope
\* when no scope outside it on the task's stack is cancelled. A task that
\* leaves a scope with the scope's Cancelled in flight continues after the
\* block with no exception and cancel_caught is true
C17_Deadline ==
  [][/\ \A s \in Scopes :
          (loop = "run" /\ cur = 0 /\ batch = {} /\ now' = now /\ Due(s)) =>
            /\ scope'[s].called
            /\ \A k \in deadlines' : k[2] # s
            /\ \A t \in scope[s].tasks :
                 task[t].abort_func = "SUCCEEDED" =>
                   /\ t \in batch' /\ task'[t].abort_func = "None"
                   /\ \E c \in Scopes :
                        /\ task'[t].next_send = Error(Bare(CancelledExc(c)))
                        /\ scope'[c].called
                        /\ (\A i, j \in DOMAIN task[t].cancel_stack :
                              (i < j /\ task[t].cancel_stack[j] = s)
                                => ~scope'[task[t].cancel_stack[i]].called)
                             => c = s
     /\ \A t \in UserTasks : \A s \in Scopes :
          (cur = t /\ TopIs(t, "scope") /\ Top(St, t).s = s
             /\ task[t].exc = Bare(CancelledExc(s))
             /\ Len(task'[t].frames) < Len(task[t].frames)) =>
            /\ task'[t].exc = EmptyBag /\ task'[t].pc = "run"
            /\ scope'[s].caught]_vars

\* the deadline loop has just cancelled a scope of the main task, and a child
\* blocked in a nursery inside that scope is in the batch, to be resumed with
\* the scope's Cancelled
C17_Witness ==
  \E s \in Scopes : \E t \in Children :
    /\ s \in hist.expired /\ scope[s].called /\ scope[s].deadline <= now
    /\ \E i \in DOMAIN task[MainTask].frames :
         task[MainTask].frames[i].k = "scope" /\ task[MainTask].frames[i].s = s
    /\ TopIs(t, "sleep") /\ t \in batch
    /\ task[t].next_send = Error(Bare(CancelledExc(s)))

\* the scope of the i-th `with open_cancel_scope()` block the task is in
ScopeAt(t, i) == task[t].frames[i].s

\* three nested scopes without shields, the two inner ones with deadlines
\* that have passed, the innermost's the earlier, the outer one with a
\* deadline still ahead
ThreeNested(t) ==
  /\ \A i \in 1..3 : task[t].frames[i].k = "scope"
                      /\ ~scope[ScopeAt(t, i)].shield
  /\ scope[ScopeAt(t, 3)].deadline < scope[ScopeAt(t, 2)].deadline
  /\ scope[ScopeAt(t, 2)].deadline <= now
  /\ now < scope[ScopeAt(t, 1)].deadline
  /\ scope[ScopeAt(t, 1)].deadline < Inf

\* the task is blocked in the innermost of such scopes, none of them
\* cancelled, and the loop is about to start an iteration
NestedWaiting(t) ==
  /\ loop = "run" /\ cur = 0 /\ batch = {}
  /\ Len(task[t].frames) = 4 /\ TopIs(t, "sleep")
  /\ task[t].abort_func = "SUCCEEDED" /\ ThreeNested(t)
  /\ \A i \in 1..3 : ~scope[ScopeAt(t, i)].called

\* the task is running in the innermost of such scopes, resumed with an
\* exception, with the two inner scopes cancelled and the outer one not
NestedExpired(t) ==
  /\ cur = t /\ task[t].exc # EmptyBag
  /\ Len(task[t].frames) = 3 /\ ThreeNested(t)
  /\ scope[ScopeAt(t, 3)].called /\ scope[ScopeAt(t, 2)].called
  /\ ~scope[ScopeAt(t, 1)].called

\* C18, as stated: in that case the exit from the innermost scope leaves its
\* cancel_caught true
C18_Original ==
  [][NestedExpired(MainTask)
       /\ Len(task'[MainTask].frames) < Len(task[MainTask].frames)
       => scope'[ScopeAt(MainTask, 3)].caught]_vars

\* C18: the iteration that finds the task so blocked cancels the innermost
\* and the middle scope, not the outer one, and leaves the task in the batch
\* to be resumed with the Cancelled of the middle scope alone; with that in
\* flight the exit from the innermost scope lets it pass and leaves
\* cancel_caught false there, the exit from the middle scope absorbs it and
\* leaves cancel_caught true, and the exit from the outer scope, with no
\* exception, leaves cancel_caught false
C18_Nested ==
  [][LET t == MainTask
         exits == Len(task'[t].frames) < Len(task[t].frames)
         middle == Bare(CancelledExc(ScopeAt(t, 2)))
     IN /\ (NestedWaiting(t) /\ now' = now) =>
             /\ scope'[ScopeAt(t, 3)].called /\ scope'[ScopeAt(t, 2)].called
             /\ ~scope'[ScopeAt(t, 1)].called
             /\ t \in batch' /\ task'[t].next_send = Error(middle)
        /\ (cur = t /\ Len(task[t].frames) = 3 /\ exits
              /\ task[t].exc = middle) =>
             /\ ~scope'[ScopeAt(t, 3)].caught
             /\ task'[t].exc = task[t].exc
        /\ (cur = t /\ Len(task[t].frames) = 2 /\ exits
              /\ task[t].exc = middle) =>
             /\ scope'[ScopeAt(t, 2)].caught
             /\ task'[t].exc = EmptyBag /\ task'[t].pc = "run"
        /\ (cur = t /\ Len(task[t].frames) = 1 /\ exits
              /\ task[t].exc = EmptyBag) =>
             ~scope'[ScopeAt(t, 1)].caught]_vars

\* the deadline loop has just cancelled the innermost and the middle of three
\* nested scopes of the main task, whose deadlines were ahead when they were
\* opened, and the task, blocked in the innermost, is in the batch, to be
\* resumed with the Cancelled of the middle one
C18_Witness ==
  LET t == MainTask
  IN /\ Len(task[t].frames) = 4 /\ TopIs(t, "sleep") /\ ThreeNested(t)
     /\ hist.expired = {ScopeAt(t, 2), ScopeAt(t, 3)}
     /\ <<scope[ScopeAt(t, 1)].deadline, ScopeAt(t, 1)>> \in deadlines
     /\ t \in batch
     /\ task[t].next_send = Error(Bare(CancelledExc(ScopeAt(t, 2))))

\* the positions on the task's cancel stack of the scopes whose deadline the
\* clock has reached
DuePositions(t) ==
  {i \in DOMAIN task[t].cancel_stack : Due(task[t].cancel_stack[i])}

\* C19: an iteration of the loop that finds two or more scopes of the cancel
\* stack of a blocked task with their deadlines reached leaves all of them
\* cancelled; if one of them has no shielded scope further inward, the task
\* is in the batch, to be resumed with one Cancelled, that of the outermost
\* such scope, and otherwise it stays blocked. A scope the task leaves with a
\* Cancelled in flight catches it, and sets cancel_caught, exactly when it
\* is the scope's own; any other passes unchanged
C19_Outermost ==
  [][LET t == MainTask
         stack == task[t].cancel_stack
     IN /\ (loop = "run" /\ cur = 0 /\ batch = {} /\ now' = now
              /\ task[t].abort_func = "SUCCEEDED"
              /\ Cardinality(DuePositions(t)) >= 2) =>
             /\ \A i \in DuePositions(t) : scope'[stack[i]].called
             /\ IF Unshielded(t)' = {}
                THEN task'[t] = task[t] /\ ~InRunQueue(t)'
                ELSE /\ Min(Unshielded(t)') \in DuePositions(t)
                     /\ t \in batch'
                     /\ task'[t].next_send =
                          Error(Bare(CancelledExc(stack[Min(Unshielded(t)')])))
        /\ (cur = t /\ TopIs(t, "scope") /\ task[t].exc # EmptyBag
              /\ Len(task'[t].frames) < Len(task[t].frames)) =>
             \E c \in Scopes :
               /\ task[t].exc = Bare(CancelledExc(c))
               /\ scope'[Top(St, t).s].caught <=> c = Top(St, t).s
               /\ task'[t].exc = IF c = Top(St, t).s THEN EmptyBag
                                 ELSE task[t].exc]_vars

\* the deadline loop has just cancelled three nested scopes of the main task;
\* the outermost of them is masked by the shield of the middle one, whose
\* Cancelled the task is to be resumed with, and the innermost had the
\* earliest deadline
C19_Witness ==
  LET t == MainTask
      stack == task[t].cancel_stack
  IN \E i, j, k \in DOMAIN stack :
       /\ i < j /\ j < k
       /\ {stack[i], stack[j], stack[k]} \subseteq hist.expired
       /\ scope[stack[j]].shield /\ ~scope[stack[k]].shield
       /\ scope[stack[k]].deadline < scope[stack[j]].deadline
       /\ TopIs(t, "sleep") /\ t \in batch
       /\ task[t].next_send = Error(Bare(CancelledExc(stack[j])))

KiDelivered(t) ==
  /\ InRunQueue(t)
  /\ task[t].next_send = Error(Bare(KeyboardInterrupt))

\* C21: a KeyboardInterrupt is never swallowed.  Every deliver_ki leaves
\* ki_pending set; ki_pending is cleared only by the step that reschedules
\* the main task with KeyboardInterrupt; when run() ends with ki_pending
\* still set it raises KeyboardInterrupt; and no task but the main task is
\* ever resumed with KeyboardInterrupt
C21_NeverSwallowed ==
  /\ [](\A t \in Tasks \ {MainTask} :
          task[t].next_send # Error(Bare(KeyboardInterrupt)))
  /\ [](loop = "closed" /\ ki.pending =>
          RunResult = Error(Bare(KeyboardInterrupt)))
  /\ [][/\ ki.signals' > ki.signals => ki.pending'
        /\ ki.pending /\ ~ki.pending' =>
             /\ ~KiDelivered(MainTask)
             /\ KiDelivered(MainTask)']_vars

\* a SIGINT has arrived and the main task, suspended inside a with-block, has
\* been rescheduled with KeyboardInterrupt, ki_pending cleared
C21_Witness ==
  /\ ki.signals > 0 /\ ~ki.pending
  /\ KiDelivered(MainTask)
  /\ task[MainTask].frames # <<>>

\* C22: a nursery becomes closed only once it has no children and no
\* zombies, and it never has any afterwards; a spawn on a closed nursery
\* raises RuntimeError in the caller and changes nothing else: no task is
\* created, and runner.tasks, the nursery, every scope's task set, the
\* deadlines and the run queue are as they were
C22_ClosedNursery ==
  /\ [](\A n \in Tasks : nursery[n].closed =>
          nursery[n].children = {} /\ nursery[n].zombies = {})
  /\ [][\A t, n \in UserTasks :
          InBody(t) /\ nursery[n].closed
          /\ task'[t].exc = Bare(RuntimeError) =>
            /\ task' = [task EXCEPT ![t].exc = Bare(RuntimeError)]
            /\ tasks' = tasks /\ runq' = runq /\ batch' = batch
            /\ nursery' = nursery /\ scope' = scope
            /\ deadlines' = deadlines]_vars
  /\ [][\A u \in Tasks :
          task'[u].born /\ ~task[u].born =>
            task'[u].nursery = 0 \/ ~nursery[task'[u].nursery].closed]_vars

\* the main task has left its nursery, whose child has finished, and a spawn
\* on the closed nursery has raised RuntimeError while a task slot is free
C22_Witness ==
  /\ cur = MainTask /\ nursery[MainTask].closed
  /\ task[MainTask].exc = Bare(RuntimeError)
  /\ SpawnedInto(MainTask) # {}
  /\ {u \in Tasks : ~task[u].born} # {}

\* the walk in which a shielded scope only resets pending, and only a scope
\* that is not shielded can become pending
RECURSIVE WalkOtherwise(_, _)
WalkOtherwise(stack, pending) ==
  IF stack = <<>> THEN pending
  ELSE WalkOtherwise(Tail(stack),
         IF scope[Head(stack)].shield THEN 0
         ELSE IF scope[Head(stack)].called /\ pending = 0 THEN Head(stack)
         ELSE pending)

\* the walk in which a shielded scope resets pending and then any scope,
\* shielded or not, that is cancelled becomes pending when pending is null:
\* its result is the outermost cancelled scope with no shielded scope further
\* inward
OutermostUnmasked(t) ==
  IF Unshielded(t) = {} THEN 0
  ELSE task[t].cancel_stack[Min(Unshielded(t))]

\* the step delivers the Cancelled of scope s to the task
Delivers(t, s) ==
  /\ task[t].next_send # Error(Bare(CancelledExc(s)))
  /\ task'[t].next_send = Error(Bare(CancelledExc(s)))

\* C24, as stated: the Cancelled delivered to a task is that of the scope the
\* walk with "otherwise" ends with, and the task that executes a checkpoint
\* is delivered it when the walk does not end with null
C24_Original ==
  [][\A t \in Tasks :
       /\ \A s \in Scopes :
            Delivers(t, s) => s = WalkOtherwise(task[t].cancel_stack, 0)'
       /\ (cur = t /\ cur' = 0 /\ AtCheckpoint(t)'
             /\ WalkOtherwise(task[t].cancel_stack, 0)' # 0) =>
            /\ InRunQueue(t)'
            /\ Delivers(t, WalkOtherwise(task[t].cancel_stack, 0)')]_vars

\* C24: the Cancelled delivered to a task is that of the outermost cancelled
\* scope of its cancel stack that has no shielded scope further inward, the
\* scope itself may be shielded; a task that executes a checkpoint is
\* delivered it when there is such a scope, and nothing is delivered when
\* there is none
C24_PendingScope ==
  [][\A t \in Tasks :
       /\ \A s \in Scopes : Delivers(t, s) => s = OutermostUnmasked(t)'
       /\ (cur = t /\ cur' = 0 /\ AtCheckpoint(t)'
             /\ OutermostUnmasked(t)' # 0) =>
            /\ InRunQueue(t)'
            /\ Delivers(t, OutermostUnmasked(t)')]_vars

\* the main task has executed yield_briefly in a scope that is shielded and
\* cancelled, inside a cancelled scope, and has been rescheduled with the
\* Cancelled of the shielded scope
C24_Witness ==
  \E i, j \in DOMAIN task[MainTask].cancel_stack :
    LET stack == task[MainTask].cancel_stack
    IN /\ i < j
       /\ scope[stack[i]].called
       /\ scope[stack[j]].shield /\ scope[stack[j]].called
       /\ TopIs(MainTask, "brief") /\ InRunQueue(MainTask)
       /\ task[MainTask].next_send = Error(Bare(CancelledExc(stack[j])))

\* the scope at position i of the task's cancel stack is shielded and no scope
\* further inward is
InnermostShield(t, i) ==
  /\ scope[task[t].cancel_stack[i]].shield
  /\ \A k \in DOMAIN task[t].cancel_stack :
       k > i => ~scope[task[t].cancel_stack[k]].shield

\* C25: the step that sets cancel_called on a shielded scope reschedules
\* every task suspended in it with an abort callback that succeeds, no scope
\* further inward being shielded or cancelled, with the Cancelled of that
\* scope; and no task is ever delivered the Cancelled of a scope that lies
\* outside a shielded scope of its stack
C25_OwnCancellation ==
  [][\A t \in Tasks : \A i \in DOMAIN task[t].cancel_stack :
       LET stack == task[t].cancel_stack
       IN /\ (/\ task'[t].cancel_stack = stack
               /\ InnermostShield(t, i) /\ InnermostShield(t, i)'
               /\ ~scope[stack[i]].called /\ scope'[stack[i]].called
               /\ task[t].abort_func = "SUCCEEDED"
               /\ task[t].next_send.k = "None"
               /\ \A k \in DOMAIN stack : k > i => ~scope'[stack[k]].called)
               => /\ InRunQueue(t)'
                  /\ task'[t].next_send = Error(Bare(CancelledExc(stack[i])))
          /\ \A j \in DOMAIN stack :
               (j < i /\ scope'[stack[i]].shield
                  /\ task'[t].cancel_stack = stack)
                 => ~Delivers(t, stack[j])]_vars

\* a child sleeps in the nursery of the main task, whose scope is shielded and
\* lies inside a cancelled scope; the nursery's scope has been cancelled and
\* the child is rescheduled with the Cancelled of the nursery's scope
C25_Witness ==
  \E t \in Children : \E i, j \in DOMAIN task[t].cancel_stack :
    LET stack == task[t].cancel_stack
    IN /\ i < j /\ scope[stack[i]].called
       /\ InnermostShield(t, j) /\ scope[stack[j]].called
       /\ TopIs(t, "sleep") /\ t \in SeqToSet(runq)
       /\ task[t].next_send = Error(Bare(CancelledExc(stack[j])))

\* the positions on the task's cancel stack of the scopes whose deadline the
\* clock has reached, the innermost scope left out
PassedOutside(t) ==
  {i \in DOMAIN task[t].cancel_stack :
     /\ i < Len(task[t].cancel_stack)
     /\ scope[task[t].cancel_stack[i]].deadline <= now}

\* C26: a task that calls yield_briefly in an unshielded scope whose deadline
\* the clock has reached, no scope of its stack being cancelled yet, is
\* suspended, off the run queue, with the deadlines of that scope and of the
\* internal scope in the index; the loop's next pass puts it in the batch with
\* the Cancelled of an enclosing scope whose deadline has passed, not that of
\* the internal scope; and the task resumed so leaves yield_briefly with that
\* Cancelled in flight
C26_ObservesDeadline ==
  [][\A t \in UserTasks :
       LET stack == task[t].cancel_stack
           shielded == \E i \in DOMAIN stack : scope[stack[i]].shield
       IN /\ (/\ cur = t /\ cur' = 0 /\ TopIs(t, "brief")'
              /\ Len(task'[t].frames) = Len(task[t].frames) + 1
              /\ ~shielded
              /\ \A i \in DOMAIN stack : ~scope[stack[i]].called
              /\ \E i \in DOMAIN stack : scope[stack[i]].deadline <= now)
               => /\ task'[t].abort_func = "SUCCEEDED" /\ ~InRunQueue(t)'
                  /\ PassedOutside(t)' # {}
                  /\ \A i \in DOMAIN task'[t].cancel_stack :
                       LET c == task'[t].cancel_stack[i]
                       IN scope'[c].deadline <= now =>
                            <<scope'[c].deadline, c>> \in deadlines'
          /\ (/\ loop = "run" /\ cur = 0 /\ batch = {} /\ now' = now
              /\ TopIs(t, "brief") /\ task[t].abort_func = "SUCCEEDED"
              /\ ~shielded /\ PassedOutside(t) # {})
               => /\ t \in batch'
                  /\ \E i \in PassedOutside(t) :
                       task'[t].next_send = Error(Bare(CancelledExc(stack[i])))
          /\ \A s \in Scopes :
               (/\ cur = 0 /\ cur' = t /\ TopIs(t, "brief")
                /\ Top(St, t).s # s
                /\ task[t].next_send = Error(Bare(CancelledExc(s))))
               => /\ task'[t].exc = Bare(CancelledExc(s))
                  /\ Len(task'[t].frames) = Len(task[t].frames) - 1
                  /\ task'[t].cancel_stack =
                       SubSeq(task[t].cancel_stack, 1,
                              Len(task[t].cancel_stack) - 1)]_vars

\* the clock has not moved; the main task called yield_briefly in a scope
\* whose deadline is the time of the clock, and the pass that followed
\* cancelled that scope and the internal one and put the task in the batch
\* with the Cancelled of the enclosing scope
C26_Witness ==
  \E i \in DOMAIN task[MainTask].frames :
    LET f == task[MainTask].frames[i]
    IN /\ f.k = "scope" /\ i + 1 = Len(task[MainTask].frames)
       /\ TopIs(MainTask, "brief") /\ MainTask \in batch
       /\ now = 0 /\ scope[f.s].deadline = 0
       /\ {f.s, Top(St, MainTask).s} \subseteq hist.expired
       /\ task[MainTask].next_send = Error(Bare(CancelledExc(f.s)))

\* run_impl is at the top of a pass
AtLoopTop == loop = "run" /\ cur = 0 /\ batch = {} /\ tasks # {}

\* the step is a pass of run_impl up to the snapshot of the run queue
IsLoopIteration == AtLoopTop /\ now' = now /\ hist'.snap = batch'

\* C27, as stated: a task that called yield_briefly when no scope of its
\* stack was cancelled - every cancelled scope of its stack has been cancelled
\* by the deadline loop of the pass that resumes it - and no KeyboardInterrupt
\* has arrived, returns from the call with no exception
C27_Original ==
  [][\A t \in UserTasks :
       (/\ cur = 0 /\ cur' = t /\ TopIs(t, "brief") /\ ki.signals = 0
        /\ \A i \in DOMAIN task[t].cancel_stack :
             scope[task[t].cancel_stack[i]].called
               => task[t].cancel_stack[i] \in hist.expired)
       => task'[t].exc = EmptyBag]_vars

\* C27: yield_briefly always comes back.  While a task is suspended in it the
\* internal scope's deadline of -inf is in the index and the timeout of a
\* pass is 0; the pass that follows the call has the task in its batch; if
\* the clock has not reached the deadline of any other scope of the task's
\* stack, none of them being shielded, the task is resumed with the Cancelled
\* of the internal scope; and a task resumed with that Cancelled leaves
\* yield_briefly with no exception in flight and the internal scope off its
\* stack
C27_ComesBack ==
  /\ [](\A t \in UserTasks :
          (TopIs(t, "brief") /\ task[t].abort_func = "SUCCEEDED") =>
            /\ <<NegInf, Top(St, t).s>> \in deadlines
            /\ AtLoopTop => Timeout(St, now) = 0)
  /\ [][\A t \in UserTasks :
          LET stack == task[t].cancel_stack
          IN /\ (IsLoopIteration /\ TopIs(t, "brief")) => t \in batch'
             /\ (/\ IsLoopIteration /\ TopIs(t, "brief")
                 /\ task[t].abort_func = "SUCCEEDED"
                 /\ PassedOutside(t) = {}
                 /\ \A i \in DOMAIN stack : ~scope[stack[i]].shield)
                 => task'[t].next_send =
                      Error(Bare(CancelledExc(Top(St, t).s)))
             /\ (/\ cur = 0 /\ cur' = t /\ TopIs(t, "brief")
                 /\ task[t].next_send =
                      Error(Bare(CancelledExc(Top(St, t).s))))
                 => /\ task'[t].exc = EmptyBag /\ task'[t].pc = "run"
                    /\ Len(task'[t].frames) = Len(task[t].frames) - 1
                    /\ task'[t].cancel_stack =
                         SubSeq(stack, 1, Len(stack) - 1)]_vars

\* the main task called yield_briefly in a scope whose deadline lies ahead of
\* the clock; the pass that followed cancelled the internal scope only and
\* put the task in the batch with the internal scope's Cancelled
C27_Witness ==
  \E i \in DOMAIN task[MainTask].frames :
    LET f == task[MainTask].frames[i]
    IN /\ f.k = "scope" /\ i + 1 = Len(task[MainTask].frames)
       /\ now < scope[f.s].deadline /\ scope[f.s].deadline < Inf
       /\ ~scope[f.s].called
       /\ TopIs(MainTask, "brief") /\ MainTask \in batch
       /\ hist.expired = {Top(St, MainTask).s}
       /\ task[MainTask].next_send =
            Error(Bare(CancelledExc(Top(St, MainTask).s)))

\* the clock's sleep time to the smallest deadline of the index
SleepTime == DeadlineToSleepTime(Min({k[1] : k \in deadlines}), now)

\* C29: at the top of every pass the timeout for handle_io is 0 when the run
\* queue is not empty or a task waits for idle; otherwise, when the index has
\* a deadline, the clock's sleep time to the smallest one, raised to 0 and
\* lowered to 86400; otherwise 86400; and it lies in 0..86400
C29_Timeout ==
  AtLoopTop =>
    /\ Timeout(St, now) \in 0..86400
    /\ (runq # <<>> \/ waiting_for_idle # {}) => Timeout(St, now) = 0
    /\ (runq = <<>> /\ waiting_for_idle = {} /\ deadlines # {}) =>
         Timeout(St, now) = IF SleepTime < 0 THEN 0
                            ELSE IF SleepTime > 86400 THEN 86400
                            ELSE SleepTime
    /\ (runq = <<>> /\ waiting_for_idle = {} /\ deadlines = {}) =>
         Timeout(St, now) = 86400

\* a pass begins with every task blocked, none waiting for idle, and the
\* smallest deadline more than a day ahead of the clock
C29_Witness ==
  /\ AtLoopTop /\ runq = <<>> /\ waiting_for_idle = {}
  /\ TopIs(MainTask, "sleep") /\ task[MainTask].abort_func = "SUCCEEDED"
  /\ deadlines # {} /\ SleepTime > 86400

\* C30: the tasks of waiting_for_idle are the tasks blocked in
\* wait_run_loop_idle that have not been rescheduled, and no assertion of the
\* code fails; a waiter is rescheduled with Value(None) only by a pass of the
\* loop whose batch is then exactly the waiters, all of them rescheduled so
\* and the set left empty; a waiter that leaves the set in any other way has
\* been rescheduled with Cancelled, its abort callback dropped
C30_IdleWake ==
  /\ [](/\ fault = "none"
        /\ \A t \in Tasks :
             t \in waiting_for_idle <=>
               (TopIs(t, "idle") /\ task[t].abort_func = "idle"))
  /\ [][\A t \in waiting_for_idle :
          /\ task'[t].next_send = Value(0) =>
               /\ IsLoopIteration
               /\ batch' = waiting_for_idle /\ waiting_for_idle' = {}
               /\ \A u \in waiting_for_idle : task'[u].next_send = Value(0)
          /\ (t \notin waiting_for_idle' /\ task'[t].next_send # Value(0)) =>
               /\ InRunQueue(t)' /\ task'[t].abort_func = "None"
               /\ \E s \in Scopes :
                    task'[t].next_send = Error(Bare(CancelledExc(s)))]_vars

\* the main task and a child both waited for idle, and a pass that found the
\* run queue empty has put both in its batch
C30_Witness ==
  \E t \in Children :
    /\ batch = {MainTask, t} /\ waiting_for_idle = {}
    /\ TopIs(MainTask, "idle") /\ TopIs(t, "idle")
    /\ task[MainTask].next_send = Value(0) /\ task[t].next_send = Value(0)

\* C28: a task that leaves a cancelled scope without that scope's Cancelled
\* in flight leaves it with cancel_caught false, off its cancel stack and out
\* of the deadline index, the exception in flight unchanged; cancel_caught
\* becomes true only when a task leaves the scope, cancelled, and, at the exit
\* of a with-block of user code, with the scope's Cancelled in flight; and a
\* Cancelled is delivered to a task, or in flight in it, only while its scope
\* is on the task's cancel stack
C28_Dropped ==
  /\ [](\A t \in UserTasks : \A s \in Scopes :
          (\/ task[t].next_send = Error(Bare(CancelledExc(s)))
           \/ BagIn(CancelledExc(s), task[t].exc))
            => s \in SeqToSet(task[t].cancel_stack))
  /\ [][\A t \in UserTasks : \A s \in Scopes :
          /\ (/\ cur = t /\ TopIs(t, "scope") /\ Top(St, t).s = s
              /\ scope[s].called /\ ~BagIn(CancelledExc(s), task[t].exc)
              /\ Len(task'[t].frames) < Len(task[t].frames))
              => /\ ~scope'[s].caught /\ ~scope'[s].live
                 /\ s \notin SeqToSet(task'[t].cancel_stack)
                 /\ \A k \in deadlines' : k[2] # s
                 /\ task'[t].exc = task[t].exc
          /\ (~scope[s].caught /\ scope'[s].caught)
              => \E u \in Tasks :
                   /\ cur = u /\ scope[s].called
                   /\ s \in SeqToSet(task[u].cancel_stack)
                   /\ s \notin SeqToSet(task'[u].cancel_stack)
                   /\ TopIs(u, "scope") =>
                        BagIn(CancelledExc(s), task[u].exc)]_vars

\* the deadline loop has cancelled the scope the main task is in while the
\* task was on the run queue in yield_briefly_no_cancel; the task has been
\* resumed, has never been sent the scope's Cancelled, and is about to leave
\* the scope
C28_Witness ==
  /\ cur = MainTask /\ TopIs(MainTask, "scope")
  /\ task[MainTask].exc = EmptyBag /\ task[MainTask].pc = "run"
  /\ Top(St, MainTask).n = 0
  /\ scope[Top(St, MainTask).s].called
  /\ scope[Top(St, MainTask).s].deadline = now /\ now > 0

\* the kill_everything tasks, each spawned by run_cb for a callback that raised
KillTasks == {t \in Children : task[t].born /\ task[t].arg # EmptyBag}

\* what the crash leads to: kill has exited with the exception e, the system
\* nursery's scope is cancelled by the end of the step of init that reaps
\* kill, and run() raises an error with e in it
CrashSurfaces(kill, e) ==
  LET sys == nursery[InitTask].scope
  IN /\ task[kill].pc = "done" => task[kill].result = Error(e)
     /\ (/\ task[kill].pc = "done" /\ nursery[InitTask].open
         /\ kill \notin nursery[InitTask].zombies /\ cur # InitTask)
        => scope[sys].called
     /\ loop = "closed"
        => /\ RunResult.k = "Error"
           /\ \A c \in BagToSet(e) : BagIn(c, RunResult.e)

\* the task is suspended and nothing has rescheduled it
Parked(t) == Suspended(St, t) /\ task[t].next_send.k = "None"

\* a step after which the system nursery's scope is cancelled and the main
\* task is suspended, and in which the main task reached its checkpoint or
\* the scope was cancelled while the main task was parked, leaves the main
\* task scheduled to be resumed with the Cancelled of that scope
MainReceivesCancelled ==
  LET sys == nursery[InitTask].scope
  IN (/\ nursery[InitTask].open /\ nursery'[InitTask].open
      /\ scope'[sys].called
      /\ Suspended(St, MainTask)'
      /\ \/ ~Suspended(St, MainTask) /\ cur = MainTask
         \/ Parked(MainTask) /\ ~scope[sys].called)
     => /\ task'[MainTask].next_send = Error(Bare(CancelledExc(sys)))
        /\ MainTask \in SeqToSet(runq')

C37_QueuedOnce ==
  /\ [](/\ fault # "reschedule: next_send is not None"
        /\ \A i, j \in DOMAIN runq : i # j => runq[i] # runq[j]
        /\ SeqToSet(runq) \cap batch = {}
        /\ cur \notin SeqToSet(runq) \cup batch \/ task[cur].pc = "done")
  /\ [][\A t \in Tasks :
         (InRunQueue(t) /\ cur' # t) =>
           /\ InRunQueue(t)'
           /\ task'[t].next_send = task[t].next_send
           /\ task'[t].abort_func = "None"]_vars

\* the child is in the batch, spawned and not yet stepped, its nursery's scope
\* has been cancelled since, and SIGINT is pending while the main task is
\* queued with a Cancelled
C37_Witness ==
  /\ \E c \in Children :
       /\ c \in batch /\ hist.steps[c] = 0 /\ task[c].next_send = NoneOut
       /\ \E s \in Scopes : scope[s].called /\ c \in scope[s].tasks
  /\ ki.pending
  /\ InRunQueue(MainTask) /\ task[MainTask].next_send.k = "Error"

\* the step in which the coroutine of t returns or raises
Finishes(t) == ~IsFinished(t) /\ IsFinished(t)'

\* C31: in the step in which a task's coroutine returns or raises, the task
\* leaves the task set of every scope that was on its cancel stack, its stack
\* becomes empty, it leaves runner.tasks, its result is set, its nursery
\* moves it from children to zombies and appends it to the nursery's monitor
\* queue, every queue registered as a monitor gains the task once and no
\* other queue changes, and the registrations are cleared; add_monitor on a
\* finished task appends the task to the queue at once; and a queue changes
\* in no other way than by these two and by being emptied
C31_ExitEffects ==
  /\ [](\A t \in Tasks : IsFinished(t) =>
          /\ task[t].monitors = {} /\ task[t].cancel_stack = <<>>
          /\ t \notin tasks
          /\ \A s \in Scopes : t \notin scope[s].tasks)
  /\ [][/\ \A t \in Tasks : Finishes(t) =>
             LET n == task[t].nursery
             IN /\ t \in tasks
                /\ \A i \in DOMAIN task[t].cancel_stack :
                     t \in scope[task[t].cancel_stack[i]].tasks
                /\ task'[t].result.k \in {"Value", "Error"}
                /\ n # 0 =>
                     /\ t \in nursery[n].children
                     /\ nursery'[n].children = nursery[n].children \ {t}
                     /\ nursery'[n].zombies = nursery[n].zombies \cup {t}
                     /\ nursery'[n].data = Append(nursery[n].data, t)
                /\ \A q \in Queues :
                     queues'[q] = IF q \in task[t].monitors
                                  THEN Append(queues[q], t) ELSE queues[q]
        /\ \A u \in Children, q \in Queues :
             (IsFinished(u) /\ UAddMonitor(MainTask, u, q)) =>
               queues'[q] = Append(queues[q], u)
        /\ \A q \in Queues :
             queues'[q] # queues[q] =>
               \/ queues'[q] = <<>>
               \/ \E u \in Tasks :
                    /\ queues'[q] = Append(queues[q], u)
                    /\ \/ Finishes(u) /\ q \in task[u].monitors
                       \/ IsFinished(u) /\ cur = MainTask]_vars

\* one child raised while the first queue monitored it and was added to it
\* again afterwards; the other child returned while the second queue
\* monitored it
C31_Witness ==
  \E c, d \in Children :
    /\ c # d
    /\ task[c].result.k = "Error" /\ task[d].result.k = "Value"
    /\ queues[1] = <<c, c>> /\ queues[2] = <<d>>

\* the task is blocked in ParkingLot.park and nothing has rescheduled it
InLot(t) == TopIs(t, "lot") /\ cur # t /\ task[t].next_send.k = "None"

\* C38: the lot holds, in the order they parked and each once, exactly the
\* tasks that are blocked in park and have not been rescheduled; unpark
\* with count n takes the first min(n, parked_count) of them off the lot and
\* appends them to the run queue in that order, each to be sent Value(None),
\* and unpark() takes all; a parked task rescheduled by a cancellation has
\* left the lot in that step; and reschedule's assertion never fails
C38_ParkOrder ==
  /\ [](/\ fault = "none"
        /\ \A i, j \in DOMAIN parked : i # j => parked[i] # parked[j]
        /\ \A t \in Tasks : InLot(t) <=> t \in SeqToSet(parked))
  /\ [][/\ \A n \in 0..NTasks :
             UUnpark(MainTask, n) =>
               LET k == IF n < Len(parked) THEN n ELSE Len(parked)
               IN /\ parked' = SubSeq(parked, k + 1, Len(parked))
                  /\ runq' = runq \o SubSeq(parked, 1, k)
                  /\ \A i \in 1..k : task'[parked[i]].next_send = Value(0)
        /\ UUnparkAll(MainTask) =>
             parked' = <<>> /\ runq' = runq \o parked
        /\ \A t \in Tasks :
             (InLot(t) /\ task'[t].next_send.k = "Error") =>
               /\ t \notin SeqToSet(parked')
               /\ \A u \in SeqToSet(parked) \ {t} :
                    task'[u].next_send.k = "Error" \/ u \in SeqToSet(parked')]_vars

\* unpark(count=1) has just rescheduled the child that parked first while the
\* child that parked after it stays in the lot
C38_Witness ==
  \E c, d \in Children :
    /\ c # d /\ cur = MainTask
    /\ parked = <<d>> /\ c \in SeqToSet(runq)
    /\ task[c].next_send = Value(0) /\ TopIs(c, "lot")
    /\ hist.steps[d] > 0


\* ------------------------------------------------------------------ C32
\* C32 as stated: no callback that run_all_bounded runs was queued, on
\* either queue, by a callback of the same pass; and the main task is
\* stepped again and again for as long as it lives.
C32_Original ==
  /\ [][/\ (\E i \in BOOLEAN, k \in Keys : CsRunCbNaughty(i, k))
            => Len(csq) > hist.fresh.plain
        /\ \A k \in Keys :
             (\E i \in BOOLEAN : CsRunIdempotentNaughty(k, i))
             => k \notin hist.fresh.early \cup hist.fresh.late]_vars
  /\ []<>(cur = MainTask \/ task[MainTask].result.k # "None")

\* C32, amended: a callback that run_all_bounded takes from call_soon_queue
\* was not queued by a callback of the same pass, and a callback it takes
\* from the idempotent queue was not queued by a callback that the pass ran
\* from the idempotent queue (one queued by a callback that the pass ran from
\* call_soon_queue does run in the same pass); and the main task is stepped
\* again and again for as long as it lives, though the queues never empty.
C32_BoundedPass ==
  /\ [][/\ (\E i \in BOOLEAN, k \in Keys : CsRunCbNaughty(i, k))
            => Len(csq) > hist.fresh.plain
        /\ \A k \in Keys :
             (\E i \in BOOLEAN : CsRunIdempotentNaughty(k, i))
             => k \notin hist.fresh.late]_vars
  /\ []<>(cur = MainTask \/ task[MainTask].result.k # "None")

\* a pass has ended that leaves, on each queue, a callback queued by one of
\* its own callbacks
C32_Witness ==
  /\ cur = CallSoonTask
  /\ task[CallSoonTask].pc = "pass2" /\ csidem.todo = {}
  /\ hist.fresh.plain > 0 /\ hist.fresh.late # {}
  /\ csq # <<>> /\ csidem.q # {}
\* ------------------------------------------------------------------ C33
\* C33: a call of call_soon_thread_and_signal_safe from a foreign thread, or
\* from the SIGINT handler on the loop thread, either finds call_soon_done
\* set, and then is refused and leaves both queues as they are, or finds it
\* unset, and then has stored its item before call_soon_done is set; an item
\* leaves a queue only by being run; and when call_soon_task has returned
\* both queues are empty, no assertion has failed, every call that was let
\* in has had its callback run, and every key stored has been run once for
\* each time it entered the idempotent queue.
C33_RaceFree ==
  /\ [](fault # "call_soon_task: queue not empty")
  /\ [](csdone => \A j \in Jobs : job[j].st \in {"new", "refused", "queued"})
  /\ [](IsFinished(CallSoonTask) =>
          /\ csdone /\ csq = <<>> /\ csidem.q = {}
          /\ \A j \in Jobs : (job[j].st = "queued" /\ job[j].key = 0)
                                 => job[j].runs = 1
          /\ \A k \in Keys : csidem.runs[k] = csidem.groups[k]
          /\ \A j \in Jobs : (job[j].st = "queued" /\ job[j].key # 0)
                                 => csidem.runs[job[j].key] > 0)
  /\ [][/\ \A j \in Jobs :
             (job[j].st = "new" /\ job'[j].st # "new")
               => /\ job'[j].st = IF csdone THEN "refused" ELSE "locked"
                  /\ csq' = csq /\ csidem' = csidem /\ woken' = woken
        /\ ki'.signals # ki.signals
             => /\ csidem' = csidem
                /\ csq' = IF csdone THEN csq ELSE Append(csq, KiJob)
        /\ Len(csq') < Len(csq)
             => /\ csq' = Tail(csq) /\ cur = CallSoonTask
                /\ \A j \in Jobs : job'[j].runs =
                      job[j].runs + (IF Head(csq) = j THEN 1 ELSE 0)
        /\ \A k \in Keys :
             (k \in csidem.q /\ k \notin csidem'.q)
               => cur = CallSoonTask /\ csidem'.runs[k] = csidem.runs[k] + 1
       ]_vars

\* the residual pass has emptied both queues; a thread's call was let in
\* while the system nursery was being cancelled and its callback has run,
\* another call was refused while the residual pass ran, and the SIGINT
\* handler stored its item during this step of call_soon_task, before
\* call_soon_done was set
C33_Witness ==
  /\ cur = CallSoonTask /\ task[CallSoonTask].pc = "residual2"
  /\ csidem.todo = {} /\ csq = <<>> /\ csidem.q = {} /\ fault = "none"
  /\ \E j \in Jobs : /\ job[j].st = "queued" /\ job[j].at = "cancelling"
                      /\ (job[j].runs = 1 \/ job[j].key # 0)
  /\ \E j \in Jobs : job[j].st = "refused" /\ job[j].at = "done"
  /\ hist.fresh.plain > 0
\* ------------------------------------------------------------------ C34
\* C34: between before_task_step(t) and after_task_step(t) no step hook of
\* another task is announced, and the two bracket exactly the step of t;
\* every before_task_step(t) finds exactly one task_scheduled(t) announced
\* since the previous before_task_step(t), or since the start for the first;
\* so that the task_scheduled(t) and the steps of t are equal in number once
\* t has finished, and differ by at most the one step still to come before.
C34_HooksOrdered ==
  /\ [](instruments.open = IF cur = 0 THEN {} ELSE {cur})
  /\ [](\A t \in Tasks :
          /\ instruments.seen[t] \in {-1, 1}
          /\ instruments.sched[t] <= 1
          /\ (IsFinished(t) /\ cur # t) => instruments.sched[t] = 0
          /\ (InRunQueue(t) \/ t \in batch) => instruments.sched[t] = 1)
  /\ [][\A t \in Tasks :
          /\ (cur # t /\ cur' = t)
               => /\ instruments.sched[t] = 1 /\ instruments.open = {}
                  /\ instruments'.seen[t] = 1
                  /\ instruments'.sched[t] = 0
          /\ (cur = t /\ cur' # t) => cur' = 0 /\ instruments'.open = {}
          /\ instruments'.sched[t] > instruments.sched[t]
               => InRunQueue(t)' /\ ~InRunQueue(t)]_vars

\* the main task is inside a step; the child has been stepped before and its
\* task_scheduled has been announced again since, in this pass
C34_Witness ==
  /\ cur = MainTask /\ instruments.open = {MainTask}
  /\ instruments.seen[MainTask] = 1 /\ instruments.sched[MainTask] = 0
  /\ instruments.seen[MainTask + 1] = 1
  /\ instruments.sched[MainTask + 1] = 1
  /\ InRunQueue(MainTask + 1)
\* ------------------------------------------------------------------ C35
\* the instruments that are active and override hook n
ActiveFor(n) == {i \in Instruments : hk.reg[i].present /\ n \in Implements(i)}

\* C35: a Hook that a call is iterating is never changed, and no iteration
\* fails; a change of the instruments of hook n made while the Hook that n
\* names is being called makes n name a copy that no call is in, and the
\* copy carries the change; a call that ends has called exactly the
\* instruments its Hook held when it began, in that order and each once; and
\* in every state the Hook that n names holds exactly the active
\* instruments that override n, the hook names kept for an active instrument
\* being the ones it overrides.
C35_SnapshotOnMutation ==
  /\ [](hk.escaped = "none" /\ hk.err = "none")
  /\ [](\A n \in SeqToSet(HookNames) :
          /\ hk.obj[hk.current[n]].name = n
          /\ SeqToSet(hk.obj[hk.current[n]].items) = ActiveFor(n)
          /\ Len(hk.obj[hk.current[n]].items) = Cardinality(ActiveFor(n)))
  /\ [](\A i \in Instruments :
          SeqToSet(hk.reg[i].hooknames) =
            IF hk.reg[i].present THEN Implements(i) ELSE {})
  /\ [](\A o \in HookIds :
          hk.obj[o].in_call =
            Cardinality({d \in DOMAIN hk.stack : hk.stack[d].hook = o}))
  /\ [][/\ \A o \in HookIds :
             (hk.obj[o].in_call > 0 /\ hk'.obj[o].in_call > 0)
               => hk'.obj[o].items = hk.obj[o].items
        /\ \A n \in SeqToSet(HookNames) :
             (hk.obj[hk.current[n]].in_call > 0 /\ ActiveFor(n)' # ActiveFor(n))
               => /\ hk'.current[n] # hk.current[n]
                  /\ hk'.obj[hk'.current[n]].in_call = 0
        /\ \A n \in SeqToSet(HookNames) :
             hk'.current[n] # hk.current[n]
               => hk.obj[hk.current[n]].in_call > 0
                  /\ ActiveFor(n)' # ActiveFor(n)
        /\ Len(hk'.stack) < Len(hk.stack)
             => HookTop(hk).called = HookTop(hk).began
        /\ Len(hk'.stack) > Len(hk.stack)
             => /\ SeqToSet(HookTop(hk').began)
                     = ActiveFor(hk.obj[HookTop(hk').hook].name)
                /\ HookTop(hk').hook
                     = hk.current[hk.obj[HookTop(hk').hook].name]]_vars

\* a call of task_scheduled is at its second item while the Hook it iterates
\* has been replaced: the instruments were changed during the call, and the
\* Hook that task_scheduled names now holds other items
C35_Witness ==
  /\ Len(hk.stack) = 1 /\ HookTop(hk).pos = 2 /\ HookTop(hk).size = 2
  /\ hk.obj[HookTop(hk).hook].name = HookNames[Len(HookNames)]
  /\ hk.current[HookNames[Len(HookNames)]] # HookTop(hk).hook
  /\ hk.obj[hk.current[HookNames[Len(HookNames)]]].items
       # hk.obj[HookTop(hk).hook].items
  /\ HookTop(hk).called = <<HookTop(hk).began[1]>>

\* ------------------------------------------------------------------ C36
\* C36 as stated: no exception leaves the announcement of a hook, whatever
\* the methods called do.
C36_Original == hk.escaped = "none"

\* the KeyError of remove_instrument has left Hook.__call__: the method of
\* an instrument that was no longer active has raised
C36_Witness ==
  /\ hk.escaped = "KeyError" /\ hk.stack = <<>>
  /\ \A o \in HookIds : hk.obj[o].in_call = 0
\* ------------------------------------------------------------------ C39
\* 1 when signal s is in _pending, else 0
PendingNow(s) == IF s \in SeqToSet(sig.pending) THEN 1 ELSE 0

\* C39: while the block is open _pending holds no number twice, the Event is
\* set exactly when _pending is not empty, signal_raise is not called, and
\* every number that entered _pending has been returned by __anext__ or is
\* still there; a call of _add stores a number that is not pending at the
\* end and leaves _pending as it is otherwise; __anext__ returns the oldest
\* pending number and takes it out; nothing else takes a number out but
\* the exit of the block, which empties _pending and calls signal_raise once
\* for each number in it, whichever handlers raise, so that every number
\* that ever entered _pending has then been returned or raised; after the
\* exit _pending stays empty, _add calls signal_raise at once, and a call of
\* __anext__ raises RuntimeError.
C39_NoSignalLost ==
  /\ [](Cardinality(SeqToSet(sig.pending)) = Len(sig.pending))
  /\ [](sig.closed => sig.pending = <<>>)
  /\ [](~sig.closed =>
          /\ sig.have_pending <=> sig.pending # <<>>
          /\ \A s \in SigNums :
               /\ sig.raised[s] = 0
               /\ sig.stored[s] = sig.returned[s] + PendingNow(s))
  /\ [][/\ \A s \in SigNums :
             (sig'.adds[s] # sig.adds[s] /\ ~sig.closed)
               => /\ sig'.pending = IF PendingNow(s) = 1 THEN sig.pending
                                    ELSE Append(sig.pending, s)
                  /\ sig'.have_pending
                  /\ sig'.returned = sig.returned
        /\ \A s \in SigNums :
             (sig'.adds[s] # sig.adds[s] /\ sig.closed)
               => /\ sig'.raised = [sig.raised EXCEPT ![s] = @ + 1]
                  /\ sig'.returned = sig.returned
        /\ sig'.returned # sig.returned
             => /\ sig.pending # <<>> /\ sig'.got = Head(sig.pending)
                /\ sig'.pending = Tail(sig.pending)
                /\ sig'.returned =
                     [sig.returned EXCEPT ![Head(sig.pending)] = @ + 1]
                /\ sig'.exc = "none" /\ sig.pc = "waiting"
        /\ (sig'.closed /\ ~sig.closed)
             => /\ sig'.pending = <<>>
                /\ \A s \in SigNums :
                     /\ sig'.raised[s] = PendingNow(s)
                     /\ sig.stored[s] = sig.returned[s] + sig'.raised[s]
                /\ sig'.returned = sig.returned
        /\ sig'.pending # sig.pending
             => \/ sig'.closed /\ ~sig.closed
                \/ sig'.returned # sig.returned
                \/ \E s \in SigNums : sig'.adds[s] # sig.adds[s]
        /\ (SigAnext /\ sig.closed)
             => sig'.exc = "RuntimeError" /\ sig'.pc = "idle"
        /\ sig.closed => sig'.closed]_vars

\* the block has been left with both numbers pending and the handler of the
\* first raising: both were raised; the first had been returned by __anext__
\* once before and had arrived again, with a repeat that collapsed; and a
\* call of __anext__ made after the exit has raised RuntimeError
C39_Witness ==
  /\ sig.closed /\ sig.err = 1
  /\ sig.stored[1] = 2 /\ sig.returned[1] = 1 /\ sig.raised[1] = 1
  /\ sig.adds[1] = 3
  /\ sig.stored[2] = 1 /\ sig.returned[2] = 0 /\ sig.raised[2] = 1
  /\ sig.exc = "RuntimeError"
\* ------------------------------------------------------------------ C40
\* a caller waiting in ensure after the function's invocation ended in the
\* way `how` leaves ensure
WaitersLeaveAfter(how) ==
  \A c \in Callers :
    (once.pc[c] = "wait" /\ once.ended = how) ~> (once.pc[c] # "wait")

\* C40: the function is started once, by the first caller of ensure, and a
\* caller waiting in ensure after the first caller's invocation has ended
\* leaves ensure, whether the invocation returned, raised or was cancelled.
C40_Original ==
  /\ [](once.starts <= 1)
  /\ [](\A c \in Callers : once.pc[c] = "afn" => c = once.first)
  /\ \A how \in {"returned", "raised", "cancelled"} : WaitersLeaveAfter(how)

\* the first caller's invocation raised, _done is not set, and another caller
\* waits for it
C40_Witness ==
  /\ once.ended = "raised" /\ ~once.done /\ once.starts = 1
  /\ once.out[once.first] = "raised"
  /\ \E c \in Callers \ {once.first} : once.pc[c] = "wait"

\* a caller waiting after the invocation returned leaves ensure
ReturnedReleasesWaiters == [](once.starts <= 1) /\ WaitersLeaveAfter("returned")
====
